---- MODULE Spec2Model ----
(***************************************************************************)
(* Model of the catalog core of the kentuckytopprops front end:            *)
(*   - the taxonomy normalizer (buildCategoryTreeFromFlat,                 *)
(*     buildServiceTreeFromFlat, flattenCategoryTree, flattenServicesTree) *)
(*   - the App's initial load and its category normalization               *)
(*   - ProductsCategoryPage (URL page parameter, fetch effect, page sync)  *)
(*   - fetchProductsPage / fetchServicesTree over apiGet                   *)
(* Each part has its own specification over the shared variables.          *)
(***************************************************************************)
EXTENDS Integers, Sequences, FiniteSets, TLC

VARIABLES
    \* ---- taxonomy normalizer (SpecTax) ----
    taxGiven,     \* the flat list as the caller made it (never written)
    taxItems,     \* the caller's array and its objects, as the builders leave them
    taxCatTree,   \* result of buildCategoryTreeFromFlat(taxItems)
    taxSvcTree,   \* result of buildServiceTreeFromFlat(taxItems)
    taxCatFlat,   \* result of flattenCategoryTree(taxCatTree)
    taxDone,      \* which of the calls have been made
    \* ---- api/public.ts calls against one backend answer (SpecFetch) ----
    fpParams,     \* the params object handed to fetchProductsPage
    fpHttp,       \* what the backend does with the /public/products request
    fpResult,     \* the promise fetchProductsPage returned
    stTreeHttp,   \* what the backend does with /public/services/tree
    stListHttp,   \* what the backend does with /public/services
    stResult,     \* the promise fetchServicesTree returned
    \* ---- ProductsCategoryPage's derived paging values (SpecPaging) ----
    pgTotal,      \* the total state the render reads
    pgParam,      \* the page parameter of the URL the render reads
    pgOut,        \* requestedPage, totalPages and currentPage of that render
    \* ---- ProductsCategoryPage, mounted on /products/:categorySlug (SpecPage) ----
    pcBackend,    \* per category, the number of products the backend holds
    pcMounted,    \* "no" before the route is opened, "yes", "gone" after unmount
    pcUrlPage,    \* the page search parameter of the URL
    pcCat,        \* the category the route's slug resolves to
    pcItems,      \* items state
    pcTotal,      \* total state
    pcLoading,    \* loading state
    pcRequests,   \* products requests in flight, each with its closure's mounted flag
    pcFetchDeps,  \* [categoryId, requestedPage] of the fetch effect's last run
    pcSyncDeps,   \* [requestedPage, currentPage] of the sync effect's last run
    pcOpened,     \* history: the URL the route was opened at
    pcNavs,       \* history: navigations by the user since then
    pcRewrites,   \* history: setSearchParams calls since the user's last navigation
    pcFailed,     \* history: some products request has failed
    \* ---- App: the fetch-on-mount effect and the state it sets (SpecLoad) ----
    beTaxonomy,   \* backend: the category taxonomy, one entry per category
    beDelivery,   \* backend: how /public/products/categories writes the taxonomy
    beCategories, \* backend: what happens to the first and second categories request
    bePages,      \* backend: what happens to the /public/pages request
    beMenus,      \* backend: what happens to the /public/menus request
    beSvcTree,    \* backend: what happens to the /public/services/tree request
    beSvcList,    \* backend: what happens to the /public/services request
    beProducts,   \* backend: how /public/products answers
    loadResults,  \* what the six promises handed to Promise.all settle to
    appMounted,   \* the effect closure's mounted variable
    loadPhase,    \* "pending", "then" (then-callback done or skipped), "done"
    loadApplied,  \* history: the then-callback ran to its end
    pages,
    menus,
    services,
    servicesTree,
    products,
    productTotal,
    productCategories,
    productCategoriesTree,
    productCategoriesLoading,
    servicesLoading,
    loading,
    \* ---- the category and service fetchers of api/public.ts (SpecCats) ----
    cfCase,       \* which of the functions this behaviour calls
    cfTreeHttp,   \* what the backend does with /public/services/tree
    cfListHttp,   \* what the backend does with /public/services
    cfCatHttp,    \* what the backend does with /public/products/categories
    cfProducts,   \* how /public/products answers fetchProductCategories()
    cfOptions,    \* the options handed to fetchProductCategoriesFromProducts
    cfPages,      \* what the backend does with the requests for the first pages
    cfBeyond,     \* what it does with the requests for every later page
    cfLoop,       \* locals of fetchProductCategoriesFromProducts while it runs
    fsResult,     \* the promise fetchServices returned
    fctResult,    \* the promise fetchProductCategoriesTree returned
    fcResult,     \* the promise fetchProductCategories returned
    ffpResult,    \* the promise fetchProductCategoriesFromProducts returned
    \* ---- the header search of App.tsx (SpecSearch) ----
    search,         \* useState(""): the text of the search input
    searchResults,  \* useState([])
    searchLoading,  \* useState(false)
    searchApp,      \* TRUE while the App is mounted
    searchEffects,  \* one closure per run of the search effect, in order
    searchChanges,  \* how many times the text changed
    \* ---- flattenCategoryTree / flattenServicesTree on given trees (SpecFlatten) ----
    flParents,      \* the tree: the tree parent of every node, 0 at top level
    flGiven,        \* the parentId field every node comes with
    flTree,         \* the nested array handed to the functions
    flCategories,   \* what flattenCategoryTree returned
    flServices,     \* what flattenServicesTree returned
    flDone,         \* which of the two has been called
    \* ---- the group filters of services and pages in App.tsx (SpecGroups) ----
    groupParents,           \* the loaded services tree: the tree parent of every service
    groupServices,          \* the services state: the flattened tree
    groupPages,             \* the pages state
    selectedServiceGroupId, \* useState("all")
    selectedPageGroupId,    \* useState("all")
    groupEffectsPending,    \* TRUE while a committed render's effects have not run
    groupChanges,           \* how many times the data was set
    groupResets,            \* which selections the reset effects have set back to "all"
    \* ---- category filter of the earlier revisions (part_000) ----
    countProducts,      \* products state of the earlier revisions
    selectedCategoryId, \* selectedCategoryId state, AllCategories for "all"
    countLoaded,        \* the load has set products
    \* ---- one call of fetchProductBySlug (public.ts lines 131-134) ----
    slugAsked,  \* the slug handed to fetchProductBySlug
    slugHttp,   \* what the backend does with the /public/products request
    slugResult, \* the promise fetchProductBySlug returned
    \* ---- contact form of the App (App.tsx lines 357-363, 426-461, 548-592) ----
    contactForm,           \* contactForm state, NoForm for null
    contactFormNote,       \* contactFormNote state
    contactFormData,       \* contactFormData state: field name -> value
    contactFormLoading,    \* contactFormLoading state
    contactFormSubmitting, \* contactFormSubmitting state
    contactFormError,      \* contactFormError state
    contactFormSuccess,    \* contactFormSuccess state
    contactInFlight,       \* submissions awaiting submitContactForm
    contactOutcomes,       \* history: how the submissions settled, in order
    contactCalls,          \* history: number of calls of handleContactSubmit
    \* ---- header menus of the App (App.tsx lines 353-356, 702-743, 857-890) ----
    menuRevision,     \* the revision that runs: "current" or "earlier" (part_000)
    productsMenuOpen, \* productsMenuOpen state
    servicesMenuOpen, \* servicesMenuOpen state
    searchOpen,       \* searchOpen state
    mobileMenuOpen,   \* mobileMenuOpen state
    menuLast          \* history: the last event and the flags it turned off

taxVars == <<taxGiven, taxItems, taxCatTree, taxSvcTree, taxCatFlat, taxDone>>

fetchVars == <<fpParams, fpHttp, fpResult, stTreeHttp, stListHttp, stResult>>

pagingVars == <<pgTotal, pgParam, pgOut>>

pageVars == <<pcBackend, pcMounted, pcUrlPage, pcCat, pcItems, pcTotal, pcLoading,
              pcRequests, pcFetchDeps, pcSyncDeps, pcOpened, pcNavs, pcRewrites,
              pcFailed>>

backendVars == <<beTaxonomy, beDelivery, beCategories, bePages, beMenus, beSvcTree,
                 beSvcList, beProducts>>

appVars == <<pages, menus, services, servicesTree, products, productTotal,
             productCategories, productCategoriesTree, productCategoriesLoading,
             servicesLoading, loading>>

loadVars == <<beTaxonomy, beDelivery, beCategories, bePages, beMenus, beSvcTree,
              beSvcList, beProducts, loadResults, appMounted, loadPhase, loadApplied,
              pages, menus, services, servicesTree, products, productTotal,
              productCategories, productCategoriesTree, productCategoriesLoading,
              servicesLoading, loading>>

catsVars == <<cfCase, cfTreeHttp, cfListHttp, cfCatHttp, cfProducts, cfOptions,
              cfPages, cfBeyond, cfLoop, fsResult, fctResult, fcResult, ffpResult>>

searchVars == <<search, searchResults, searchLoading, searchApp, searchEffects,
                searchChanges>>

flattenVars == <<flParents, flGiven, flTree, flCategories, flServices, flDone>>

groupVars == <<groupParents, groupServices, groupPages, selectedServiceGroupId,
               selectedPageGroupId, groupEffectsPending, groupChanges, groupResets>>

countVars == <<countProducts, selectedCategoryId, countLoaded>>

slugVars == <<slugAsked, slugHttp, slugResult>>

contactVars ==
    <<contactForm, contactFormNote, contactFormData, contactFormLoading,
      contactFormSubmitting, contactFormError, contactFormSuccess,
      contactInFlight, contactOutcomes, contactCalls>>

menuVars ==
    <<menuRevision, productsMenuOpen, servicesMenuOpen, searchOpen,
      mobileMenuOpen, menuLast>>

vars == <<taxGiven, taxItems, taxCatTree, taxSvcTree, taxCatFlat, taxDone,
          fpParams, fpHttp, fpResult, stTreeHttp, stListHttp, stResult,
          pgTotal, pgParam, pgOut,
          pcBackend, pcMounted, pcUrlPage, pcCat, pcItems, pcTotal, pcLoading,
          pcRequests, pcFetchDeps, pcSyncDeps, pcOpened, pcNavs, pcRewrites,
          pcFailed,
          beTaxonomy, beDelivery, beCategories, bePages, beMenus, beSvcTree,
          beSvcList, beProducts, loadResults, appMounted, loadPhase, loadApplied,
          pages, menus, services, servicesTree, products, productTotal,
          productCategories, productCategoriesTree, productCategoriesLoading,
          servicesLoading, loading,
          cfCase, cfTreeHttp, cfListHttp, cfCatHttp, cfProducts, cfOptions,
          cfPages, cfBeyond, cfLoop, fsResult, fctResult, fcResult, ffpResult,
          search, searchResults, searchLoading, searchApp, searchEffects,
          searchChanges,
          flParents, flGiven, flTree, flCategories, flServices, flDone,
          groupParents, groupServices, groupPages, selectedServiceGroupId,
          selectedPageGroupId, groupEffectsPending, groupChanges, groupResets,
          countProducts, selectedCategoryId, countLoaded,
          slugAsked, slugHttp, slugResult,
          contactForm, contactFormNote, contactFormData, contactFormLoading,
          contactFormSubmitting, contactFormError, contactFormSuccess,
          contactInFlight, contactOutcomes, contactCalls,
          menuRevision, productsMenuOpen, servicesMenuOpen, searchOpen,
          mobileMenuOpen, menuLast>>

----------------------------------------------------------------------------
(* Values *)

\* A parentId that is null, undefined or "" (all falsy in the code's tests).
None == 0

\* Largest number of entries of a flat taxonomy list.
MaxCats == 3

\* An id that no entry of the list carries (a parent the backend left out).
MissingId == MaxCats + 1

Range(s) == {s[i] : i \in 1..Len(s)}

RECURSIVE Concat(_)
Concat(ss) == IF Len(ss) = 0 THEN <<>> ELSE Head(ss) \o Concat(Tail(ss))

----------------------------------------------------------------------------
(* types.ts: ProductCategory / Service, reduced to the fields the           *)
(* normalizer reads: id, parentId, children.                                *)

FlatItem(id, parentId) == [id |-> id, parentId |-> parentId, children |-> <<>>]

\* Array.prototype.length of node.children (absent children count as none).
HasChildren(node) == Len(node.children) > 0

----------------------------------------------------------------------------
(* App.tsx: buildCategoryTreeFromFlat *)

\* map.has(id) on the Map filled from the items (lines 94-97).
CategoryMapHas(items, id) == \E i \in 1..Len(items) : items[i].id = id

\* PlaceCategories with the child put in front of its siblings (unshift for push).
RECURSIVE PlaceCategoriesUnshift(_, _, _)
PlaceCategoriesUnshift(items, i, acc) ==
    IF i > Len(items) THEN acc
    ELSE LET item == items[i] IN
         IF item.parentId # None /\ CategoryMapHas(items, item.parentId)
         THEN PlaceCategoriesUnshift(items, i + 1,
                  [acc EXCEPT !.children[item.parentId] = <<item.id>> \o @])
         ELSE PlaceCategoriesUnshift(items, i + 1,
                  [acc EXCEPT !.roots = Append(@, item.id)])

\* The second loop (lines 98-105): every map entry is pushed either to the
\* children of its parent's entry or to roots, in map (insertion) order.
RECURSIVE PlaceCategories(_, _, _)
PlaceCategories(items, i, acc) ==
    IF i > Len(items) THEN acc
    ELSE LET item == items[i] IN
         IF item.parentId # None /\ CategoryMapHas(items, item.parentId)
         THEN PlaceCategories(items, i + 1,
                  [acc EXCEPT !.children[item.parentId] = Append(@, item.id)])
         ELSE PlaceCategories(items, i + 1,
                  [acc EXCEPT !.roots = Append(@, item.id)])

\* The map after both loops: per id its children (ids, in push order), and roots.
CategoryPlacement(items) ==
    PlaceCategories(items, 1,
        [children |-> [id \in {items[i].id : i \in 1..Len(items)} |-> <<>>],
         roots    |-> <<>>])

CategoryItemById(items, id) ==
    items[CHOOSE i \in 1..Len(items) : items[i].id = id]

\* The object a root (or a child below a root) is: the copy {...item, children}
\* whose children array holds the copies pushed to it.
RECURSIVE CategoryNode(_, _, _)
CategoryNode(items, placement, id) ==
    LET item == CategoryItemById(items, id)
        kids == placement.children[id]
    IN  [id       |-> item.id,
         parentId |-> item.parentId,
         children |-> [k \in 1..Len(kids) |-> CategoryNode(items, placement, kids[k])]]

buildCategoryTreeFromFlat(items) ==
    LET placement == CategoryPlacement(items)
    IN  [k \in 1..Len(placement.roots) |->
            CategoryNode(items, placement, placement.roots[k])]

\* The input array after the call: line 96 stores a spread copy of each item,
\* and line 101 pushes to the copies, so the caller's objects are as before.
CategoryInputAfterBuild(items) == items

----------------------------------------------------------------------------
(* App.tsx: buildServiceTreeFromFlat *)

ServiceMapHas(items, id) == \E i \in 1..Len(items) : items[i].id = id

RECURSIVE PlaceServices(_, _, _)
PlaceServices(items, i, acc) ==
    IF i > Len(items) THEN acc
    ELSE LET item == items[i] IN
         IF item.parentId # None /\ ServiceMapHas(items, item.parentId)
         THEN PlaceServices(items, i + 1,
                  [acc EXCEPT !.children[item.parentId] = Append(@, item.id)])
         ELSE PlaceServices(items, i + 1,
                  [acc EXCEPT !.roots = Append(@, item.id)])

ServicePlacement(items) ==
    PlaceServices(items, 1,
        [children |-> [id \in {items[i].id : i \in 1..Len(items)} |-> <<>>],
         roots    |-> <<>>])

RECURSIVE ServiceNode(_, _, _)
ServiceNode(items, placement, id) ==
    LET item == items[CHOOSE i \in 1..Len(items) : items[i].id = id]
        kids == placement.children[id]
    IN  [id       |-> item.id,
         parentId |-> item.parentId,
         children |-> [k \in 1..Len(kids) |-> ServiceNode(items, placement, kids[k])]]

buildServiceTreeFromFlat(items) ==
    LET placement == ServicePlacement(items)
    IN  [k \in 1..Len(placement.roots) |->
            ServiceNode(items, placement, placement.roots[k])]

ServiceInputAfterBuild(items) == items

----------------------------------------------------------------------------
(* api/public.ts: flattenCategoryTree; App.tsx: flattenServicesTree *)

\* flattenCategoryTree without the `!node.parentId` test of line 33.
RECURSIVE flattenCategoryTreeOverwrites(_, _)
flattenCategoryTreeOverwrites(nodes, parentId) ==
    IF Len(nodes) = 0 THEN <<>>
    ELSE Concat([k \in 1..Len(nodes) |->
            LET node == nodes[k]
                normalized == IF parentId # None
                              THEN [node EXCEPT !.parentId = parentId]
                              ELSE node
            IN  <<normalized>> \o
                (IF HasChildren(node)
                 THEN flattenCategoryTreeOverwrites(node.children, node.id)
                 ELSE <<>>)])

RECURSIVE flattenCategoryTree(_, _)
flattenCategoryTree(nodes, parentId) ==
    IF Len(nodes) = 0 THEN <<>>
    ELSE Concat([k \in 1..Len(nodes) |->
            LET node == nodes[k]
                normalized == IF parentId # None /\ node.parentId = None
                              THEN [node EXCEPT !.parentId = parentId]
                              ELSE node
            IN  <<normalized>> \o
                (IF HasChildren(node)
                 THEN flattenCategoryTree(node.children, node.id)
                 ELSE <<>>)])

RECURSIVE flattenServicesTree(_, _)
flattenServicesTree(nodes, parentId) ==
    IF Len(nodes) = 0 THEN <<>>
    ELSE Concat([k \in 1..Len(nodes) |->
            LET node == nodes[k]
                normalized == IF parentId # None /\ node.parentId = None
                              THEN [node EXCEPT !.parentId = parentId]
                              ELSE node
            IN  <<normalized>> \o
                (IF HasChildren(node)
                 THEN flattenServicesTree(node.children, node.id)
                 ELSE <<>>)])

----------------------------------------------------------------------------
(* App.tsx: ProductsCategoryPage, the values a render derives *)

PageSize == 20

\* The page search parameter: absent, "" , white space only, an integer
\* literal, "Infinity", or some other text.
Param(kind, n) == [kind |-> kind, n |-> n]
IntParam(n) == Param("int", n)

\* Number(searchParams.get("page") || "1"): null and "" are replaced by "1";
\* white space converts to 0, an integer literal to its value, "Infinity" to
\* Infinity and other text to NaN.
PageParamNumber(param) ==
    CASE param.kind \in {"absent", "empty"} -> [finite |-> TRUE, n |-> 1]
      [] param.kind = "blank"               -> [finite |-> TRUE, n |-> 0]
      [] param.kind = "int"                 -> [finite |-> TRUE, n |-> param.n]
      [] OTHER                              -> [finite |-> FALSE, n |-> 0]

\* Number.isFinite(pageParam) ? pageParam : 1
RequestedPageOf(param) ==
    LET pageParam == PageParamNumber(param)
    IN  IF pageParam.finite THEN pageParam.n ELSE 1

Max(a, b) == IF a >= b THEN a ELSE b
Min(a, b) == IF a <= b THEN a ELSE b

\* Math.ceil(a / b) for integers a >= 0, b > 0
CeilDiv(a, b) == (a + b - 1) \div b

\* Line 239 with Math.floor for Math.ceil.
TotalPagesFloor(total) == Max(1, total \div PageSize)

\* Math.max(1, Math.ceil(total / pageSize))
TotalPagesOf(total) == Max(1, CeilDiv(total, PageSize))

\* Math.min(Math.max(1, requestedPage), totalPages)
CurrentPageOf(param, total) ==
    Min(Max(1, RequestedPageOf(param)), TotalPagesOf(total))

\* String(currentPage) as the new page parameter (line 247)
PageParamOfNumber(n) == IntParam(n)

----------------------------------------------------------------------------
(* The page's variables while another part of the program is checked *)

NoDeps == [cat |-> 0, page |-> 0]
NoSyncDeps == [req |-> 0, cur |-> 0]

PagingIdle ==
    /\ pgTotal = 0
    /\ pgParam = <<>>
    /\ pgOut = <<>>

CatsIdle ==
    /\ cfCase = "idle"
    /\ cfTreeHttp = <<>>
    /\ cfListHttp = <<>>
    /\ cfCatHttp = <<>>
    /\ cfProducts = ""
    /\ cfOptions = <<>>
    /\ cfPages = <<>>
    /\ cfBeyond = <<>>
    /\ cfLoop = <<>>
    /\ fsResult = <<>>
    /\ fctResult = <<>>
    /\ fcResult = <<>>
    /\ ffpResult = <<>>

SearchIdle ==
    /\ search = <<>>
    /\ searchResults = <<>>
    /\ searchLoading = FALSE
    /\ searchApp = FALSE
    /\ searchEffects = <<>>
    /\ searchChanges = 0

FlattenIdle ==
    /\ flParents = <<>>
    /\ flGiven = <<>>
    /\ flTree = <<>>
    /\ flCategories = <<>>
    /\ flServices = <<>>
    /\ flDone = {}

GroupIdle ==
    /\ groupParents = <<>>
    /\ groupServices = <<>>
    /\ groupPages = <<>>
    /\ selectedServiceGroupId = 0
    /\ selectedPageGroupId = 0
    /\ groupEffectsPending = FALSE
    /\ groupChanges = 0
    /\ groupResets = {}

CountIdle ==
    /\ countProducts = <<>>
    /\ selectedCategoryId = 0
    /\ countLoaded = FALSE

SlugIdle ==
    /\ slugAsked = <<>>
    /\ slugHttp = <<>>
    /\ slugResult = <<>>

ContactIdle ==
    /\ contactForm = <<>>
    /\ contactFormNote = <<>>
    /\ contactFormData = <<>>
    /\ contactFormLoading = FALSE
    /\ contactFormSubmitting = FALSE
    /\ contactFormError = <<>>
    /\ contactFormSuccess = <<>>
    /\ contactInFlight = <<>>
    /\ contactOutcomes = <<>>
    /\ contactCalls = 0

MenuIdle ==
    /\ menuRevision = ""
    /\ productsMenuOpen = FALSE
    /\ servicesMenuOpen = FALSE
    /\ searchOpen = FALSE
    /\ mobileMenuOpen = FALSE
    /\ menuLast = <<>>

LoadIdle ==
    /\ beTaxonomy = <<>>
    /\ beDelivery = <<>>
    /\ beCategories = <<>>
    /\ bePages = <<>>
    /\ beMenus = <<>>
    /\ beSvcTree = <<>>
    /\ beSvcList = <<>>
    /\ beProducts = ""
    /\ loadResults = <<>>
    /\ appMounted = FALSE
    /\ loadPhase = "idle"
    /\ loadApplied = FALSE
    /\ pages = <<>>
    /\ menus = <<>>
    /\ services = <<>>
    /\ servicesTree = <<>>
    /\ products = <<>>
    /\ productTotal = 0
    /\ productCategories = <<>>
    /\ productCategoriesTree = <<>>
    /\ productCategoriesLoading = TRUE
    /\ servicesLoading = TRUE
    /\ loading = TRUE

PageIdle ==
    /\ pcBackend = <<>>
    /\ pcMounted = "no"
    /\ pcUrlPage = <<>>
    /\ pcCat = 0
    /\ pcItems = <<>>
    /\ pcTotal = 0
    /\ pcLoading = TRUE
    /\ pcRequests = {}
    /\ pcFetchDeps = <<>>
    /\ pcSyncDeps = <<>>
    /\ pcOpened = <<>>
    /\ pcNavs = 0
    /\ pcRewrites = 0
    /\ pcFailed = FALSE

----------------------------------------------------------------------------
(* The normalizer's variables while another part of the program is checked *)

NotRun == <<"not run">>

TaxIdle ==
    /\ taxGiven = <<>>
    /\ taxItems = <<>>
    /\ taxCatTree = <<>>
    /\ taxSvcTree = <<>>
    /\ taxCatFlat = <<>>
    /\ taxDone = {}

----------------------------------------------------------------------------
(* api client: apiGet, and the values a request can produce *)

\* A promise that has settled. val always has the type of the function's
\* result; it is meaningless when st = "rejected" or "pending".
Resolved(v) == [st |-> "resolved", val |-> v]
Rejected(v0) == [st |-> "rejected", val |-> v0]
Pending(v0) == [st |-> "pending", val |-> v0]

\* What can happen to a request: fetch() rejects, the status is not 2xx,
\* res.json() cannot read the body, or a JSON value arrives.
HttpKinds == {"networkError", "httpError", "badJson", "json"}

\* apiGet throws in the first three cases and returns the parsed body otherwise.
apiGetThrows(http) == http.kind # "json"

\* An optional JSON field: absent (undefined), null, or a value.
Absent(v0) == [d |-> "absent", v |-> v0]
Null(v0) == [d |-> "null", v |-> v0]
Val(v) == [d |-> "val", v |-> v]

\* a ?? b
Nullish(f) == f.d # "val"

\* a || b for fields whose values are arrays (an array is always truthy).
Falsy(f) == f.d # "val"

----------------------------------------------------------------------------
(* api/public.ts: fetchProductsPage *)

DefaultPage == 1
DefaultPageSize == 20

RequestedPage(params) == IF Nullish(params.page) THEN DefaultPage ELSE params.page.v
RequestedPageSize(params) ==
    IF Nullish(params.pageSize) THEN DefaultPageSize ELSE params.pageSize.v

ProductsPage(items, total, page, pageSize) ==
    [items |-> items, total |-> total, page |-> page, pageSize |-> pageSize]

EmptyProductsPage(page, pageSize) == ProductsPage(<<>>, 0, page, pageSize)

\* Lines 114-125 with `||` where the code has `??` for total.
NormalizeProductsBodyOr(body, page, pageSize) ==
    IF body.t = "array"
    THEN ProductsPage(body.arr, Len(body.arr), page, pageSize)
    ELSE LET items == IF ~Falsy(body.items) THEN body.items.v
                      ELSE IF ~Falsy(body.data) THEN body.data.v
                      ELSE IF ~Falsy(body.results) THEN body.results.v
                      ELSE <<>>
             total == IF ~Nullish(body.total) /\ body.total.v # 0 THEN body.total.v
                      ELSE IF ~Nullish(body.count) THEN body.count.v
                      ELSE Len(items)
         IN  ProductsPage(items, total,
                 IF ~Nullish(body.page) THEN body.page.v ELSE page,
                 IF ~Nullish(body.pageSize) THEN body.pageSize.v
                 ELSE IF ~Nullish(body.limit) THEN body.limit.v
                 ELSE pageSize)

\* Lines 114-125, for a body that is an array, an object, or a primitive
\* (whose properties all read as undefined).
NormalizeProductsBody(body, page, pageSize) ==
    IF body.t = "array"
    THEN ProductsPage(body.arr, Len(body.arr), page, pageSize)
    ELSE LET items == IF ~Falsy(body.items) THEN body.items.v
                      ELSE IF ~Falsy(body.data) THEN body.data.v
                      ELSE IF ~Falsy(body.results) THEN body.results.v
                      ELSE <<>>
             total == IF ~Nullish(body.total) THEN body.total.v
                      ELSE IF ~Nullish(body.count) THEN body.count.v
                      ELSE Len(items)
         IN  ProductsPage(items, total,
                 IF ~Nullish(body.page) THEN body.page.v ELSE page,
                 IF ~Nullish(body.pageSize) THEN body.pageSize.v
                 ELSE IF ~Nullish(body.limit) THEN body.limit.v
                 ELSE pageSize)

\* fetchProductsPage whose try block ends after the apiGet call: reading
\* .items of a null body then throws outside of it.
fetchProductsPageNarrowTry(params, http) ==
    LET page == RequestedPage(params)
        pageSize == RequestedPageSize(params)
    IN  IF apiGetThrows(http) THEN Resolved(EmptyProductsPage(page, pageSize))
        ELSE IF http.body.t = "null" THEN Rejected(EmptyProductsPage(page, pageSize))
        ELSE Resolved(NormalizeProductsBody(http.body, page, pageSize))

\* The async function: the promise it returns, given what the request does.
\* A null body makes `response.items` throw a TypeError inside the try.
fetchProductsPage(params, http) ==
    LET page == RequestedPage(params)
        pageSize == RequestedPageSize(params)
    IN  IF apiGetThrows(http) THEN Resolved(EmptyProductsPage(page, pageSize))
        ELSE IF http.body.t = "null" THEN Resolved(EmptyProductsPage(page, pageSize))
        ELSE Resolved(NormalizeProductsBody(http.body, page, pageSize))

----------------------------------------------------------------------------
(* api/public.ts: fetchServicesTree *)

\* Lines 45-49: the array the response is or wraps (data, items, results in
\* that order), else []. A null body reads as undefined through `?.`.
UnwrapList(body) ==
    IF body.t = "array" THEN body.arr
    ELSE IF body.data.d = "val" THEN body.data.v
    ELSE IF body.items.d = "val" THEN body.items.v
    ELSE IF body.results.d = "val" THEN body.results.v
    ELSE <<>>

\* The try returns the unwrapped tree; the catch returns the promise of the
\* second apiGet, which rejects when that request fails too.
fetchServicesTree(treeHttp, listHttp) ==
    IF ~apiGetThrows(treeHttp) THEN Resolved(UnwrapList(treeHttp.body))
    ELSE IF apiGetThrows(listHttp) THEN Rejected(<<>>)
    ELSE Resolved(listHttp.body.arr)

----------------------------------------------------------------------------
(* SpecFetch: one call of fetchProductsPage or of fetchServicesTree against *)
(* every answer of the backend                                              *)

NoArr == <<>>

\* Bodies of the products endpoint. Every field gets its own values, so the
\* result shows which field it was taken from.
ProductsBody(t, arr, f) ==
    [t |-> t, arr |-> arr,
     items |-> f.items, data |-> f.data, results |-> f.results,
     total |-> f.total, count |-> f.count,
     page |-> f.page, pageSize |-> f.pageSize, limit |-> f.limit]

NoFields ==
    [items |-> Absent(NoArr), data |-> Absent(NoArr), results |-> Absent(NoArr),
     total |-> Absent(0), count |-> Absent(0),
     page |-> Absent(0), pageSize |-> Absent(0), limit |-> Absent(0)]

ObjectFieldChoices ==
    [items    : {Absent(NoArr), Null(NoArr), Val(<<>>), Val(<<11>>)},
     data     : {Absent(NoArr), Null(NoArr), Val(<<12>>)},
     results  : {Absent(NoArr), Val(<<13, 14>>)},
     total    : {Absent(0), Null(0), Val(0), Val(45)},
     count    : {Absent(0), Null(0), Val(7)},
     page     : {Absent(0), Val(0), Val(4)},
     pageSize : {Absent(0), Null(0), Val(50)},
     limit    : {Absent(0), Val(10)}]

ProductsBodies ==
    {ProductsBody("null", NoArr, NoFields), ProductsBody("primitive", NoArr, NoFields)}
    \cup {ProductsBody("array", a, NoFields) : a \in {<<>>, <<11>>, <<11, 12, 13>>}}
    \cup {ProductsBody("object", NoArr, f) : f \in ObjectFieldChoices}

ProductsHttp ==
    {[kind |-> k, body |-> ProductsBody("null", NoArr, NoFields)] :
        k \in HttpKinds \ {"json"}}
    \cup {[kind |-> "json", body |-> b] : b \in ProductsBodies}

ProductsParams ==
    [page : {Absent(0), Val(3)}, pageSize : {Absent(0), Val(8)}]

\* Bodies of the list endpoints (services, categories).
ListBody(t, arr, data, items, results) ==
    [t |-> t, arr |-> arr, data |-> data, items |-> items, results |-> results]

\* A wrapped field holds an array, is absent, or holds something else.
NotArray(v0) == [d |-> "other", v |-> v0]

ServiceLists == {<<>>, <<FlatItem(1, None)>>, <<FlatItem(1, None), FlatItem(2, 1)>>}

ListBodies(lists) ==
    {ListBody("null", NoArr, Absent(NoArr), Absent(NoArr), Absent(NoArr))}
    \cup {ListBody("array", l, Absent(NoArr), Absent(NoArr), Absent(NoArr)) : l \in lists}
    \cup {ListBody("object", NoArr, d, i, r) :
            d \in {Absent(NoArr), NotArray(NoArr)} \cup {Val(l) : l \in lists},
            i \in {Absent(NoArr)} \cup {Val(l) : l \in lists},
            r \in {Absent(NoArr)} \cup {Val(l) : l \in lists}}

ListHttp(lists) ==
    {[kind |-> k, body |-> ListBody("null", NoArr, Absent(NoArr), Absent(NoArr), Absent(NoArr))] :
        k \in HttpKinds \ {"json"}}
    \cup {[kind |-> "json", body |-> b] : b \in ListBodies(lists)}

\* /public/services answers with a bare array when it answers.
PlainListHttp(lists) ==
    {h \in ListHttp(lists) : h.kind = "json" => h.body.t = "array"}

NoHttp == [kind |-> "networkError", body |-> ProductsBody("null", NoArr, NoFields)]
NoListHttp ==
    [kind |-> "networkError",
     body |-> ListBody("null", NoArr, Absent(NoArr), Absent(NoArr), Absent(NoArr))]

\* The calls' variables while another part of the program is checked.
FetchIdle ==
    /\ fpParams = <<>>
    /\ fpHttp = <<>>
    /\ fpResult = <<>>
    /\ stTreeHttp = <<>>
    /\ stListHttp = <<>>
    /\ stResult = <<>>

FetchInit ==
    /\ TaxIdle
    /\ LoadIdle
    /\ CatsIdle
    /\ SearchIdle
    /\ FlattenIdle
    /\ PagingIdle
    /\ PageIdle
    /\ GroupIdle
    /\ CountIdle
    /\ SlugIdle
    /\ ContactIdle
    /\ MenuIdle
    /\ fpResult = Pending(EmptyProductsPage(0, 0))
    /\ stResult = Pending(<<>>)
    /\ fpParams \in ProductsParams
    /\ \/ /\ fpHttp \in ProductsHttp
          /\ stTreeHttp = NoListHttp
          /\ stListHttp = NoListHttp
       \/ /\ fpHttp = NoHttp
          /\ stTreeHttp \in ListHttp(ServiceLists)
          /\ stListHttp \in PlainListHttp(ServiceLists)

FetchProductsPageCall ==
    /\ fpResult.st = "pending"
    /\ stResult.st = "pending"
    /\ fpResult' = fetchProductsPage(fpParams, fpHttp)
    /\ UNCHANGED <<fpParams, fpHttp, stTreeHttp, stListHttp, stResult>>
    /\ UNCHANGED <<taxVars, pagingVars, pageVars, loadVars, catsVars,
                   searchVars, flattenVars, groupVars, countVars, slugVars,
                   contactVars, menuVars>>

FetchServicesTreeCall ==
    /\ fpResult.st = "pending"
    /\ stResult.st = "pending"
    /\ stResult' = fetchServicesTree(stTreeHttp, stListHttp)
    /\ UNCHANGED <<fpParams, fpHttp, fpResult, stTreeHttp, stListHttp>>
    /\ UNCHANGED <<taxVars, pagingVars, pageVars, loadVars, catsVars,
                   searchVars, flattenVars, groupVars, countVars, slugVars,
                   contactVars, menuVars>>

FetchNext ==
    \/ FetchProductsPageCall
    \/ FetchServicesTreeCall

SpecFetch == FetchInit /\ [][FetchNext]_vars

----------------------------------------------------------------------------
(* SpecTax: the normalizer applied to every flat list with unique ids *)

Perms(n) == {p \in [1..n -> 1..n] : \A i, j \in 1..n : p[i] = p[j] => i = j}

\* parentId values: none, an id of the list, or an id missing from it.
ParentChoices(n) == {None} \cup (1..n) \cup {MissingId}

\* The flat list with ids p[1..n] and parentIds par[1..n].
FlatListOf(n, p, par) == [i \in 1..n |-> FlatItem(p[i], par[i])]

TaxInit ==
    /\ \E n \in 0..MaxCats :
          \E p \in Perms(n), par \in [1..n -> ParentChoices(n)] :
             taxGiven = FlatListOf(n, p, par)
    /\ taxItems = taxGiven
    /\ taxCatTree = NotRun
    /\ taxSvcTree = NotRun
    /\ taxCatFlat = NotRun
    /\ taxDone = {}
    /\ FetchIdle
    /\ PagingIdle
    /\ PageIdle
    /\ LoadIdle
    /\ CatsIdle
    /\ SearchIdle
    /\ FlattenIdle
    /\ GroupIdle
    /\ CountIdle
    /\ SlugIdle
    /\ ContactIdle
    /\ MenuIdle

TaxBuildCategoryTree ==
    /\ "buildCategory" \notin taxDone
    /\ taxCatTree' = buildCategoryTreeFromFlat(taxItems)
    /\ taxItems' = CategoryInputAfterBuild(taxItems)
    /\ taxDone' = taxDone \cup {"buildCategory"}
    /\ UNCHANGED <<taxGiven, taxSvcTree, taxCatFlat>>
    /\ UNCHANGED <<fetchVars, pagingVars, pageVars, loadVars, catsVars,
                   searchVars, flattenVars, groupVars, countVars, slugVars,
                   contactVars, menuVars>>

TaxBuildServiceTree ==
    /\ "buildService" \notin taxDone
    /\ taxSvcTree' = buildServiceTreeFromFlat(taxItems)
    /\ taxItems' = ServiceInputAfterBuild(taxItems)
    /\ taxDone' = taxDone \cup {"buildService"}
    /\ UNCHANGED <<taxGiven, taxCatTree, taxCatFlat>>
    /\ UNCHANGED <<fetchVars, pagingVars, pageVars, loadVars, catsVars,
                   searchVars, flattenVars, groupVars, countVars, slugVars,
                   contactVars, menuVars>>

TaxFlattenCategoryTree ==
    /\ "buildCategory" \in taxDone
    /\ "flattenCategory" \notin taxDone
    /\ taxCatFlat' = flattenCategoryTree(taxCatTree, None)
    /\ taxDone' = taxDone \cup {"flattenCategory"}
    /\ UNCHANGED <<taxGiven, taxItems, taxCatTree, taxSvcTree>>
    /\ UNCHANGED <<fetchVars, pagingVars, pageVars, loadVars, catsVars,
                   searchVars, flattenVars, groupVars, countVars, slugVars,
                   contactVars, menuVars>>

TaxNext ==
    \/ TaxBuildCategoryTree
    \/ TaxBuildServiceTree
    \/ TaxFlattenCategoryTree

SpecTax == TaxInit /\ [][TaxNext]_vars

----------------------------------------------------------------------------
(* SpecPaging: one render of ProductsCategoryPage for every total and page   *)
(* parameter                                                                *)

\* Largest total held, and largest integer written in the URL.
MaxTotal == 45
MaxPageParam == 3

PageParams ==
    {Param(k, 0) : k \in {"absent", "empty", "blank", "text", "infinity"}}
    \cup {IntParam(n) : n \in (0 - 2)..MaxPageParam}

PagingInit ==
    /\ pgTotal \in 0..MaxTotal
    /\ pgParam \in PageParams
    /\ pgOut = [done |-> FALSE, requestedPage |-> 0, totalPages |-> 0, currentPage |-> 0]
    /\ TaxIdle
    /\ FetchIdle
    /\ PageIdle
    /\ LoadIdle
    /\ CatsIdle
    /\ SearchIdle
    /\ FlattenIdle
    /\ GroupIdle
    /\ CountIdle
    /\ SlugIdle
    /\ ContactIdle
    /\ MenuIdle

\* Lines 210-211 and 239-240 of one render.
PagingRender ==
    /\ ~pgOut.done
    /\ pgOut' = [done          |-> TRUE,
                 requestedPage |-> RequestedPageOf(pgParam),
                 totalPages    |-> TotalPagesOf(pgTotal),
                 currentPage   |-> CurrentPageOf(pgParam, pgTotal)]
    /\ UNCHANGED <<pgTotal, pgParam>>
    /\ UNCHANGED <<taxVars, fetchVars, pageVars, loadVars, catsVars,
                   searchVars, flattenVars, groupVars, countVars, slugVars,
                   contactVars, menuVars>>

PagingNext == PagingRender

SpecPaging == PagingInit /\ [][PagingNext]_vars

----------------------------------------------------------------------------
(* SpecPage: ProductsCategoryPage opened at a URL, its two effects, the     *)
(* responses to its requests and the user's navigations                     *)

\* Navigations by the user after the route was opened.
MaxNavs == 1

\* Two categories, by id.
PageCats == {1, 2}

\* The page parameters the route is opened at or navigated to.
PcParams ==
    {Param(k, 0) : k \in {"absent", "text"}} \cup {IntParam(n) : n \in 0..MaxPageParam}

\* The backend holds no product, two pages' worth or MaxTotal for a category.
BackendTotals == {0, PageSize + 1, MaxTotal}

ProductId(c, k) == c * 100 + k

\* The products of page p of category c, by pages of PageSize.
BackendPage(c, p, T) ==
    IF p >= 1 /\ (p - 1) * PageSize < T
    THEN [k \in 1..Min(PageSize, T - (p - 1) * PageSize) |->
             ProductId(c, (p - 1) * PageSize + k)]
    ELSE <<>>

\* The backend's answer to /public/products?page=p&pageSize=20&categoryId=c.
BackendAnswer(c, p) ==
    [kind |-> "json",
     body |-> ProductsBody("object", NoArr,
                [NoFields EXCEPT !.items = Val(BackendPage(c, p, pcBackend[c])),
                                 !.total = Val(pcBackend[c]),
                                 !.page = Val(p),
                                 !.pageSize = Val(PageSize)])]

requestedPage == RequestedPageOf(pcUrlPage)
totalPages == TotalPagesOf(pcTotal)
currentPage == CurrentPageOf(pcUrlPage, pcTotal)

\* Line 247 with totalPages for currentPage.
SyncEffectPageLast == totalPages

\* The page the sync effect writes to the URL (line 247).
SyncEffectPage == currentPage

FetchDepsNow == [cat |-> pcCat, page |-> requestedPage]
SyncDepsNow == [req |-> requestedPage, cur |-> currentPage]

\* An effect whose dependencies differ from those of its last run has not
\* run yet for the committed render.
EffectsPending ==
    /\ pcMounted = "yes"
    /\ (FetchDepsNow # pcFetchDeps \/ SyncDepsNow # pcSyncDeps)

\* A cleanup that leaves `mounted` as it is.
CleanupKeepsMounted(requests) == requests

\* The cleanup of the fetch effect: mounted = false in the closure.
Cleanup(requests) == {[r EXCEPT !.live = FALSE] : r \in requests}

\* The two categories are interchangeable: the first holds at least as many
\* products as the second.
PageInit ==
    /\ pcBackend \in {b \in [PageCats -> BackendTotals] : b[1] >= b[2]}
    /\ pcMounted = "no"
    /\ pcUrlPage = Param("absent", 0)
    /\ pcCat = 0
    /\ pcItems = <<>>
    /\ pcTotal = 0
    /\ pcLoading = TRUE
    /\ pcRequests = {}
    /\ pcFetchDeps = NoDeps
    /\ pcSyncDeps = NoSyncDeps
    /\ pcOpened = [param |-> Param("absent", 0), cat |-> 0]
    /\ pcNavs = 0
    /\ pcRewrites = 0
    /\ pcFailed = FALSE
    /\ TaxIdle
    /\ FetchIdle
    /\ PagingIdle
    /\ LoadIdle
    /\ CatsIdle
    /\ SearchIdle
    /\ FlattenIdle
    /\ GroupIdle
    /\ CountIdle
    /\ SlugIdle
    /\ ContactIdle
    /\ MenuIdle

\* The route is opened at /products/<c>?page=<param>: first render with the
\* initial state (lines 212-214); the effects have not run yet.
PcOpen(param, c) ==
    /\ pcMounted = "no"
    /\ pcMounted' = "yes"
    /\ pcUrlPage' = param
    /\ pcCat' = c
    /\ pcOpened' = [param |-> param, cat |-> c]
    /\ UNCHANGED <<pcBackend, pcItems, pcTotal, pcLoading, pcRequests, pcFetchDeps,
                   pcSyncDeps, pcNavs, pcRewrites, pcFailed>>
    /\ UNCHANGED <<taxVars, fetchVars, pagingVars, loadVars, catsVars,
                   searchVars, flattenVars, groupVars, countVars, slugVars,
                   contactVars, menuVars>>

\* The effects of the committed render, in order: the fetch effect (lines
\* 218-237) when categoryId or requestedPage changed, then the sync effect
\* (lines 245-249) when requestedPage or currentPage changed.
PcRunEffects ==
    /\ EffectsPending
    /\ LET runFetch == FetchDepsNow # pcFetchDeps
           runSync  == SyncDepsNow # pcSyncDeps
           rewrite  == runSync /\ requestedPage # currentPage
       IN  /\ pcRequests' =
                 IF runFetch
                 THEN Cleanup(pcRequests)
                        \cup {[cat |-> pcCat, page |-> requestedPage, live |-> TRUE]}
                 ELSE pcRequests
           /\ pcLoading' = IF runFetch THEN TRUE ELSE pcLoading
           /\ pcUrlPage' = IF rewrite THEN PageParamOfNumber(SyncEffectPage) ELSE pcUrlPage
           /\ pcRewrites' = IF rewrite THEN pcRewrites + 1 ELSE pcRewrites
           /\ pcFetchDeps' = FetchDepsNow
           /\ pcSyncDeps' = SyncDepsNow
    /\ UNCHANGED <<pcBackend, pcMounted, pcCat, pcItems, pcTotal, pcOpened, pcNavs,
                   pcFailed>>
    /\ UNCHANGED <<taxVars, fetchVars, pagingVars, loadVars, catsVars,
                   searchVars, flattenVars, groupVars, countVars, slugVars,
                   contactVars, menuVars>>

\* A request settles: fetchProductsPage resolves with the backend's page or,
\* when the request fails, with the empty page; then (lines 226-230) and
\* finally (lines 231-233) act only while the closure's mounted is true.
\* React runs a commit's effects before the response's task is handled.
PcResponse(r, ok) ==
    /\ r \in pcRequests
    /\ ~EffectsPending
    /\ LET http == IF ok THEN BackendAnswer(r.cat, r.page) ELSE NoHttp
           data == fetchProductsPage(
                       [page |-> Val(r.page), pageSize |-> Val(PageSize)], http).val
       IN  /\ pcItems' = IF r.live THEN data.items ELSE pcItems
           /\ pcTotal' = IF r.live THEN data.total ELSE pcTotal
           /\ pcLoading' = IF r.live THEN FALSE ELSE pcLoading
    /\ pcRequests' = pcRequests \ {r}
    /\ pcFailed' = (pcFailed \/ ~ok)
    /\ UNCHANGED <<pcBackend, pcMounted, pcUrlPage, pcCat, pcFetchDeps, pcSyncDeps,
                   pcOpened, pcNavs, pcRewrites>>
    /\ UNCHANGED <<taxVars, fetchVars, pagingVars, loadVars, catsVars,
                   searchVars, flattenVars, groupVars, countVars, slugVars,
                   contactVars, menuVars>>

\* The user follows a pagination link or edits the URL of the same category.
PcGoto(param) ==
    /\ pcMounted = "yes"
    /\ ~EffectsPending
    /\ pcNavs < MaxNavs
    /\ param # pcUrlPage
    /\ pcUrlPage' = param
    /\ pcNavs' = pcNavs + 1
    /\ pcRewrites' = 0
    /\ UNCHANGED <<pcBackend, pcMounted, pcCat, pcItems, pcTotal, pcLoading,
                   pcRequests, pcFetchDeps, pcSyncDeps, pcOpened, pcFailed>>
    /\ UNCHANGED <<taxVars, fetchVars, pagingVars, loadVars, catsVars,
                   searchVars, flattenVars, groupVars, countVars, slugVars,
                   contactVars, menuVars>>

\* The user follows a category link, /products/<c>: same route, same
\* component instance, no page parameter.
PcGotoCategory(c) ==
    /\ pcMounted = "yes"
    /\ ~EffectsPending
    /\ pcNavs < MaxNavs
    /\ c # pcCat
    /\ pcCat' = c
    /\ pcUrlPage' = Param("absent", 0)
    /\ pcNavs' = pcNavs + 1
    /\ pcRewrites' = 0
    /\ UNCHANGED <<pcBackend, pcMounted, pcItems, pcTotal, pcLoading,
                   pcRequests, pcFetchDeps, pcSyncDeps, pcOpened, pcFailed>>
    /\ UNCHANGED <<taxVars, fetchVars, pagingVars, loadVars, catsVars,
                   searchVars, flattenVars, groupVars, countVars, slugVars,
                   contactVars, menuVars>>

\* The user leaves the route: the fetch effect's cleanup runs and the
\* component's state is discarded.
PcUnmount ==
    /\ pcMounted = "yes"
    /\ pcMounted' = "gone"
    /\ pcRequests' = Cleanup(pcRequests)
    /\ pcUrlPage' = Param("absent", 0)
    /\ pcCat' = 0
    /\ pcItems' = <<>>
    /\ pcTotal' = 0
    /\ pcLoading' = TRUE
    /\ pcFetchDeps' = NoDeps
    /\ pcSyncDeps' = NoSyncDeps
    /\ pcOpened' = [param |-> Param("absent", 0), cat |-> 0]
    /\ pcNavs' = 0
    /\ pcRewrites' = 0
    /\ UNCHANGED <<pcBackend, pcFailed>>
    /\ UNCHANGED <<taxVars, fetchVars, pagingVars, loadVars, catsVars,
                   searchVars, flattenVars, groupVars, countVars, slugVars,
                   contactVars, menuVars>>

PcOpenAny == \E param \in PcParams, c \in PageCats : PcOpen(param, c)
PcResponseAny == \E r \in pcRequests, ok \in BOOLEAN : PcResponse(r, ok)
PcGotoAny == \E param \in PcParams : PcGoto(param)
PcGotoCategoryAny == \E c \in PageCats : PcGotoCategory(c)

PageNext ==
    \/ PcOpenAny
    \/ PcRunEffects
    \/ PcResponseAny
    \/ PcGotoAny
    \/ PcGotoCategoryAny
    \/ PcUnmount

SpecPage == PageInit /\ [][PageNext]_vars

\* React runs the effects of every committed render.
SpecPageFair ==
    /\ PageInit
    /\ [][PageNext]_vars
    /\ WF_vars(PcRunEffects)

----------------------------------------------------------------------------
(* api/public.ts: fetchPages, fetchMenus, fetchProductCategoriesTree,        *)
(* fetchProductCategoriesFromProducts, fetchProductCategories               *)

\* return apiGet(...) without a try: the promise rejects when the request
\* fails and otherwise carries the parsed body, an array or null.
fetchPages(http) ==
    IF apiGetThrows(http) THEN Rejected(Null(<<>>)) ELSE Resolved(http.body)

fetchMenus(http) ==
    IF apiGetThrows(http) THEN Rejected(Null(<<>>)) ELSE Resolved(http.body)

\* Lines 185-194: the array the response is or wraps, [] otherwise and [] in
\* the catch.
fetchProductCategoriesTree(http) ==
    IF apiGetThrows(http) THEN Resolved(<<>>) ELSE Resolved(UnwrapList(http.body))

\* types.ts Product, reduced to id, category and the categories of its
\* categoryLinks (absent links read as none).
Product(id, category, categoryLinks) ==
    [id |-> id, category |-> category, categoryLinks |-> categoryLinks]

NoCategory == Null(FlatItem(None, None))

\* x.category?.id is truthy
HasCategoryId(f) == f.d = "val" /\ f.v.id # None

\* categories.set(category.id, category) on the Map, kept as its values in
\* insertion order: a known key keeps its place and takes the new value.
MapSetOf(entries, category) ==
    IF \E i \in 1..Len(entries) : entries[i].id = category.id
    THEN [i \in 1..Len(entries) |->
             IF entries[i].id = category.id THEN category ELSE entries[i]]
    ELSE Append(entries, category)

\* The Map and the category are values by the time set() is called.
MapSet(entries, category) ==
    CHOOSE out \in {MapSetOf(e, c) : e \in {entries}, c \in {category}} : TRUE

\* Lines 167-171: the forEach over a product's categoryLinks.
RECURSIVE CollectLinkCategories(_, _, _)
CollectLinkCategories(links, j, categories) ==
    IF j > Len(links) THEN categories
    ELSE CollectLinkCategories(links, j + 1,
             IF HasCategoryId(links[j]) THEN MapSet(categories, links[j].v)
             ELSE categories)

\* Lines 163-172: the forEach over the items of one page.
RECURSIVE CollectProductCategories(_, _, _)
CollectProductCategories(items, i, categories) ==
    IF i > Len(items) THEN categories
    ELSE LET product == items[i]
             own == IF HasCategoryId(product.category)
                    THEN MapSet(categories, product.category.v)
                    ELSE categories
         IN  CollectProductCategories(items, i + 1,
                 CollectLinkCategories(product.categoryLinks, 1, own))

FromProductsPageSize == 100
FromProductsMaxPages == 50

\* The options argument: pageSize and maxPages, each given or not.
NoOptions == [pageSize |-> Absent(0), maxPages |-> Absent(0)]

\* options?.pageSize ?? 100 and options?.maxPages ?? 50
OptionPageSize(options) ==
    IF Nullish(options.pageSize) THEN FromProductsPageSize ELSE options.pageSize.v
OptionMaxPages(options) ==
    IF Nullish(options.maxPages) THEN FromProductsMaxPages ELSE options.maxPages.v

\* The function's locals before the loop (lines 156-158), with the pages
\* requested so far and whether the loop was left by break.
LoopStart ==
    [page |-> 1, totalPages |-> 1, categories |-> <<>>, requests |-> <<>>,
     broke |-> FALSE]

\* The while condition (line 160)
LoopContinues(options, st) ==
    ~st.broke /\ st.page <= st.totalPages /\ st.page <= OptionMaxPages(options)

\* Lines 162-177, `result` being what the awaited fetchProductsPage gave.
LoopRound(pageSize, st, result) ==
    LET items == result.items
        collected == CollectProductCategories(items, 1, st.categories)
        resultPageSize == IF result.pageSize # 0 THEN result.pageSize ELSE pageSize
        nextTotal == IF resultPageSize # 0
                     THEN CeilDiv(result.total, resultPageSize)
                     ELSE 1
    IN  [page       |-> IF Len(items) = 0 THEN st.page ELSE st.page + 1,
         totalPages |-> nextTotal,
         categories |-> collected,
         requests   |-> Append(st.requests, st.page),
         broke      |-> Len(items) = 0]

\* The result of the request for page st.page (line 161).
LoopRequest(options, st, http) ==
    fetchProductsPage([page |-> Val(st.page),
                       pageSize |-> Val(OptionPageSize(options))], http).val

\* A round of the loop without line 176: an empty page does not end it.
LoopIterationNoBreak(options, st, http) ==
    CHOOSE next \in {[LoopRound(OptionPageSize(options), st, result) EXCEPT
                         !.page = st.page + 1, !.broke = FALSE] :
                     result \in {LoopRequest(options, st, http)}} : TRUE

\* One round of the loop (lines 161-177), http being what the backend does
\* with the request for page st.page.
LoopIteration(options, st, http) ==
    CHOOSE next \in {LoopRound(OptionPageSize(options), st, result) :
                     result \in {LoopRequest(options, st, http)}} : TRUE

\* The while loop of lines 160-178; answers[page] is what the backend does
\* with the request for that page.
RECURSIVE FromProductsLoop(_, _, _)
FromProductsLoop(options, answers, st) ==
    IF ~LoopContinues(options, st) THEN st
    ELSE FromProductsLoop(options, answers,
             LoopIteration(options, st, answers[st.page]))

\* Array.from(categories.values()) after the loop
fetchProductCategoriesFromProducts(options, answers) ==
    Resolved(FromProductsLoop(options, answers, LoopStart).categories)

\* Lines 198-204: the flattened tree when the tree request brought one, the
\* categories found on the products otherwise.
fetchProductCategories(http, answers) ==
    LET tree == fetchProductCategoriesTree(http).val
    IN  IF Len(tree) > 0 THEN Resolved(flattenCategoryTree(tree, None))
        ELSE fetchProductCategoriesFromProducts(NoOptions, answers)

\* fetchServices without its try: the rejection of fetchServicesTree passes.
fetchServicesNoCatch(treeHttp, listHttp) ==
    LET tree == fetchServicesTree(treeHttp, listHttp)
    IN  IF tree.st = "rejected" THEN Rejected(<<>>)
        ELSE Resolved(flattenServicesTree(tree.val, None))

\* Lines 56-61: the flattened tree, [] when fetchServicesTree rejects. When
\* /public/services answers with something that is not an array, the value
\* has no entries to walk: flattenServicesTree returns [] for it or throws in
\* the try, and the result is [] as for the empty array.
fetchServices(treeHttp, listHttp) ==
    LET tree == fetchServicesTree(treeHttp, listHttp)
    IN  IF tree.st = "rejected" THEN Resolved(<<>>)
        ELSE Resolved(flattenServicesTree(tree.val, None))

----------------------------------------------------------------------------
(* App.tsx: the then-callback of the initial load (lines 378-415)           *)

\* nextServicesTree.some((service) => service.children?.length)
hasServiceChildren(nextServicesTree) ==
    \E k \in 1..Len(nextServicesTree) : HasChildren(nextServicesTree[k])

\* Lines 391-394
NormalizedServicesTree(nextServicesTree) ==
    IF Len(nextServicesTree) > 0 /\ ~hasServiceChildren(nextServicesTree)
    THEN buildServiceTreeFromFlat(nextServicesTree)
    ELSE nextServicesTree

\* nextCategoriesTree.some((category) => category.children?.length)
hasCategoryChildren(nextCategoriesTree) ==
    \E k \in 1..Len(nextCategoriesTree) : HasChildren(nextCategoriesTree[k])

\* Lines 401-405 taking the delivered array as the tree in every case.
NormalizedCategoriesTreeAsGiven(nextCategoriesTree, flatCategories) ==
    IF Len(nextCategoriesTree) > 0
    THEN nextCategoriesTree
    ELSE buildCategoryTreeFromFlat(flatCategories)

\* Lines 401-405
NormalizedCategoriesTree(nextCategoriesTree, flatCategories) ==
    IF Len(nextCategoriesTree) > 0
    THEN IF hasCategoryChildren(nextCategoriesTree)
         THEN nextCategoriesTree
         ELSE buildCategoryTreeFromFlat(nextCategoriesTree)
    ELSE buildCategoryTreeFromFlat(flatCategories)

\* Lines 407-411 preferring the flat list whenever it has entries.
NextProductCategoriesFlatFirst(normalizedCategoriesTree, flatCategories) ==
    IF Len(flatCategories) > 0
    THEN flatCategories
    ELSE flattenCategoryTree(normalizedCategoriesTree, None)

\* Lines 407-411: the argument of setProductCategories
NextProductCategories(normalizedCategoriesTree, flatCategories) ==
    IF Len(normalizedCategoriesTree) > 0
    THEN flattenCategoryTree(normalizedCategoriesTree, None)
    ELSE flatCategories

----------------------------------------------------------------------------
(* SpecLoad: the App mounts against a backend and its initial load settles  *)

TaxonomyIds(T) == {T[i].id : i \in 1..Len(T)}

ParentOf(T, id) == CategoryItemById(T, id).parentId

\* No category is its own ancestor.
TaxonomyAcyclic(T) ==
    ~ \E S \in SUBSET TaxonomyIds(T) :
         S # {} /\ \A id \in S : ParentOf(T, id) \in S

\* The categories whose parent is a category of the taxonomy.
ChildIds(T) == {id \in TaxonomyIds(T) : ParentOf(T, id) \in TaxonomyIds(T)}

\* The nested form of category id: its children in children, and parentId
\* left out on the children listed in omit.
RECURSIVE NestedNode(_, _, _)
NestedNode(T, id, omit) ==
    LET kids == SelectSeq(T, LAMBDA it : it.parentId = id)
    IN  [id       |-> id,
         parentId |-> IF id \in omit THEN None ELSE ParentOf(T, id),
         children |-> [k \in 1..Len(kids) |-> NestedNode(T, kids[k].id, omit)]]

\* What the categories endpoint writes: the flat list, or the top-level
\* categories with their descendants nested.
Delivered(T, delivery) ==
    IF delivery.form = "flat" THEN T
    ELSE LET tops == SelectSeq(T, LAMBDA it : it.id \notin ChildIds(T))
         IN  [k \in 1..Len(tops) |-> NestedNode(T, tops[k].id, delivery.omit)]

ArrayHttp(list) ==
    [kind |-> "json",
     body |-> ListBody("array", list, Absent(NoArr), Absent(NoArr), Absent(NoArr))]

\* The answer to a request to /public/products/categories: which = "tree" for
\* the request of fetchProductCategoriesTree() in the Promise.all, "flat" for
\* the one made inside fetchProductCategories().
CategoriesHttp(which) ==
    IF beCategories[which] = "fail" THEN NoListHttp
    ELSE ArrayHttp(Delivered(beTaxonomy, beDelivery))

\* The backend's products: one with a category, one with two category links.
DbProducts ==
    <<Product(1, Val(FlatItem(1, None)), <<>>),
      Product(2, NoCategory, <<Val(FlatItem(2, 1)), Val(FlatItem(1, None))>>)>>

\* The answer to /public/products?page=..&pageSize=..: the backend fails,
\* serves pages of the size asked for, or caps the page size at one product.
ProductsAnswerOf(kind, page, pageSize) ==
    IF kind = "fail" THEN NoHttp
    ELSE LET size == IF kind = "capped" THEN 1 ELSE pageSize
         IN  [kind |-> "json",
              body |-> ProductsBody("object", NoArr,
                  [NoFields EXCEPT
                      !.items = Val(SubSeq(DbProducts, (page - 1) * size + 1,
                                           Min(page * size, Len(DbProducts)))),
                      !.total = Val(Len(DbProducts)),
                      !.page = Val(page),
                      !.pageSize = Val(size)])]

\* The answers to the requests of fetchProductCategoriesFromProducts().
ProductsAnswersOf(kind) ==
    [page \in 1..FromProductsMaxPages |->
        ProductsAnswerOf(kind, page, FromProductsPageSize)]

ProductsAnswer(page, pageSize) == ProductsAnswerOf(beProducts, page, pageSize)

ProductsAnswers == ProductsAnswersOf(beProducts)

\* The six promises handed to Promise.all (lines 369-376).
pagesRes == fetchPages(bePages)
menusRes == fetchMenus(beMenus)
servicesTreeRes == fetchServicesTree(beSvcTree, beSvcList)
categoriesTreeRes == fetchProductCategoriesTree(CategoriesHttp("tree"))
categoriesFlatRes == fetchProductCategories(CategoriesHttp("flat"), ProductsAnswers)
productsRes ==
    fetchProductsPage([page |-> Val(1), pageSize |-> Val(PageSize)],
                      ProductsAnswer(1, PageSize))

\* The array handed to Promise.all, each promise as it settles.
SixPromises ==
    [pages          |-> pagesRes,
     menus          |-> menusRes,
     servicesTree   |-> servicesTreeRes,
     categoriesTree |-> categoriesTreeRes,
     categoriesFlat |-> categoriesFlatRes,
     products       |-> productsRes]

\* Promise.allSettled for Promise.all: fulfilled whatever the six promises did.
AllSettled ==
    \A which \in DOMAIN loadResults : loadResults[which].st # "pending"

\* Promise.all is fulfilled when all six promises are.
AllResolved ==
    \A which \in DOMAIN loadResults : loadResults[which].st = "resolved"

PageList == <<1, 2>>
MenuList == <<1>>
ServiceFlat == <<FlatItem(1, None), FlatItem(2, 1)>>
ServiceNested ==
    <<[id |-> 1, parentId |-> None, children |-> <<FlatItem(2, None)>>]>>

OptListHttp ==
    {[kind |-> "networkError", body |-> Null(<<>>)],
     [kind |-> "json", body |-> Null(<<>>)]}

\* An answer of the form {data: [...]}.
WrappedHttp(list) ==
    [kind |-> "json",
     body |-> ListBody("object", NoArr, Val(list), Absent(NoArr), Absent(NoArr))]

\* What the two services endpoints do: the tree answers flat, nested or
\* empty; or it fails and the list answers with an array, fails, or answers
\* with an object that wraps the array.
ServicesBackends ==
    {<<ArrayHttp(l), NoListHttp>> : l \in {ServiceFlat, ServiceNested, <<>>}}
    \cup {<<NoListHttp, ArrayHttp(ServiceFlat)>>, <<NoListHttp, NoListHttp>>,
          <<NoListHttp, WrappedHttp(ServiceFlat)>>}

\* Every taxonomy of up to MaxCats categories, delivered flat or nested,
\* beside endpoints for pages, menus and services that answer.
BackendOfTaxonomies ==
    /\ \E n \in 0..MaxCats : \E par \in [1..n -> ParentChoices(n)] :
          /\ beTaxonomy = FlatListOf(n, [i \in 1..n |-> i], par)
          /\ \/ beDelivery = [form |-> "flat", omit |-> {}]
             \/ /\ TaxonomyAcyclic(beTaxonomy)
                /\ ChildIds(beTaxonomy) # {}
                /\ \E omit \in SUBSET ChildIds(beTaxonomy) :
                      beDelivery = [form |-> "nested", omit |-> omit]
    /\ bePages = [kind |-> "json", body |-> Val(PageList)]
    /\ beMenus = [kind |-> "json", body |-> Val(MenuList)]
    /\ beSvcTree = ArrayHttp(ServiceFlat)
    /\ beSvcList = NoListHttp

\* One taxonomy beside every behaviour of the endpoints for pages, menus and
\* services.
BackendOfEndpoints ==
    /\ beTaxonomy = <<FlatItem(1, None), FlatItem(2, 1)>>
    /\ beDelivery = [form |-> "flat", omit |-> {}]
    /\ bePages \in OptListHttp \cup {[kind |-> "json", body |-> Val(PageList)]}
    /\ beMenus \in OptListHttp \cup {[kind |-> "json", body |-> Val(MenuList)]}
    /\ \E b \in ServicesBackends : beSvcTree = b[1] /\ beSvcList = b[2]

\* The state after the first render and its mount effect (lines 336-349 and
\* 367-368), the six requests being under way.
LoadStart ==
    /\ beCategories \in [tree : {"ok", "fail"}, flat : {"ok", "fail"}]
    /\ beProducts \in {"fail", "all", "capped"}
    /\ loadResults = SixPromises
    /\ appMounted = TRUE
    /\ loadPhase = "pending"
    /\ loadApplied = FALSE
    /\ pages = <<>>
    /\ menus = <<>>
    /\ services = <<>>
    /\ servicesTree = <<>>
    /\ products = <<>>
    /\ productTotal = 0
    /\ productCategories = <<>>
    /\ productCategoriesTree = <<>>
    /\ productCategoriesLoading = TRUE
    /\ servicesLoading = TRUE
    /\ loading = TRUE
    /\ TaxIdle
    /\ FetchIdle
    /\ PagingIdle
    /\ PageIdle
    /\ CatsIdle
    /\ SearchIdle
    /\ FlattenIdle
    /\ GroupIdle
    /\ CountIdle
    /\ SlugIdle
    /\ ContactIdle
    /\ MenuIdle

LoadInit ==
    /\ BackendOfTaxonomies \/ BackendOfEndpoints
    /\ LoadStart

\* The catch of fetchServicesTree returns the body of /public/services as it
\* is: servicesTreeRes is an array (or null) unless that body is an object.
ServicesTreeResIsArray ==
    ~(apiGetThrows(beSvcTree) /\ ~apiGetThrows(beSvcList) /\ beSvcList.body.t = "object")

\* Promise.all resolved: the then-callback (lines 378-415) runs; it returns
\* at once when the effect's cleanup has run. With a servicesTreeRes that is
\* not an array, nextServicesTree.some (line 390) throws a TypeError after
\* setPages and setMenus: the rest of the callback is not run.
LoadThen ==
    /\ loadPhase = "pending"
    /\ AllResolved
    /\ loadPhase' = "then"
    /\ IF appMounted /\ ~ServicesTreeResIsArray
       THEN /\ pages' = IF Falsy(loadResults.pages.val) THEN <<>> ELSE loadResults.pages.val.v
            /\ menus' = IF Falsy(loadResults.menus.val) THEN <<>> ELSE loadResults.menus.val.v
            /\ UNCHANGED <<services, servicesTree, products, productTotal,
                           productCategories, productCategoriesTree,
                           productCategoriesLoading, servicesLoading, loadApplied>>
       ELSE IF appMounted
       THEN LET nextServicesTree == loadResults.servicesTree.val
                normalizedServicesTree == NormalizedServicesTree(nextServicesTree)
                nextCategoriesTree == loadResults.categoriesTree.val
                flatCategories == loadResults.categoriesFlat.val
                normalizedCategoriesTree ==
                    NormalizedCategoriesTree(nextCategoriesTree, flatCategories)
            IN  /\ pages' = IF Falsy(loadResults.pages.val) THEN <<>> ELSE loadResults.pages.val.v
                /\ menus' = IF Falsy(loadResults.menus.val) THEN <<>> ELSE loadResults.menus.val.v
                /\ servicesTree' = normalizedServicesTree
                /\ services' = flattenServicesTree(normalizedServicesTree, None)
                /\ servicesLoading' = FALSE
                /\ productCategoriesTree' = normalizedCategoriesTree
                /\ productCategories' =
                       NextProductCategories(normalizedCategoriesTree, flatCategories)
                /\ productCategoriesLoading' = FALSE
                /\ products' = loadResults.products.val.items
                /\ productTotal' = loadResults.products.val.total
                /\ loadApplied' = TRUE
       ELSE UNCHANGED <<pages, menus, services, servicesTree, products, productTotal,
                        productCategories, productCategoriesTree,
                        productCategoriesLoading, servicesLoading, loadApplied>>
    /\ UNCHANGED <<backendVars, loadResults, appMounted, loading>>
    /\ UNCHANGED <<taxVars, fetchVars, pagingVars, pageVars, catsVars,
                   searchVars, flattenVars, groupVars, countVars, slugVars,
                   contactVars, menuVars>>

\* setLoading(false) in a second then-callback for the finally-callback: it
\* is skipped with the first one.
LoadFinallyAsThen ==
    /\ loadPhase = "then"
    /\ loadPhase' = "done"
    /\ loading' = IF appMounted THEN FALSE ELSE loading
    /\ UNCHANGED <<backendVars, loadResults, appMounted, loadApplied, pages, menus, services,
                   servicesTree, products, productTotal, productCategories,
                   productCategoriesTree, productCategoriesLoading, servicesLoading>>
    /\ UNCHANGED <<taxVars, fetchVars, pagingVars, pageVars, catsVars,
                   searchVars, flattenVars, groupVars, countVars, slugVars,
                   contactVars, menuVars>>

\* The finally-callback (lines 416-418): it follows the then-callback, or the
\* rejection of Promise.all, in which case the then-callback is skipped.
LoadFinally ==
    /\ \/ loadPhase = "then"
       \/ loadPhase = "pending" /\ ~AllResolved
    /\ loadPhase' = "done"
    /\ loading' = IF appMounted THEN FALSE ELSE loading
    /\ UNCHANGED <<backendVars, loadResults, appMounted, loadApplied, pages, menus, services,
                   servicesTree, products, productTotal, productCategories,
                   productCategoriesTree, productCategoriesLoading, servicesLoading>>
    /\ UNCHANGED <<taxVars, fetchVars, pagingVars, pageVars, catsVars,
                   searchVars, flattenVars, groupVars, countVars, slugVars,
                   contactVars, menuVars>>

\* The effect's cleanup (lines 419-421), while the requests are in flight or
\* after the load is over; the finally-callback is queued as a microtask by
\* the then-callback's promise, so no cleanup runs between the two.
AppUnmount ==
    /\ appMounted
    /\ loadPhase \in {"pending", "done"}
    /\ appMounted' = FALSE
    /\ UNCHANGED <<backendVars, loadResults, loadPhase, loadApplied, appVars>>
    /\ UNCHANGED <<taxVars, fetchVars, pagingVars, pageVars, catsVars,
                   searchVars, flattenVars, groupVars, countVars, slugVars,
                   contactVars, menuVars>>

LoadNext ==
    \/ LoadThen
    \/ LoadFinally
    \/ AppUnmount

SpecLoad == LoadInit /\ [][LoadNext]_vars

\* The load against every behaviour of the endpoints.
LoadOfEndpointsInit == BackendOfEndpoints /\ LoadStart

\* The callbacks of a settled promise are run.
SpecLoadFair ==
    /\ LoadOfEndpointsInit
    /\ [][LoadNext]_vars
    /\ WF_vars(LoadThen)
    /\ WF_vars(LoadFinally)

----------------------------------------------------------------------------
(* SpecCats: one call of fetchServices, of fetchProductCategoriesTree and   *)
(* fetchProductCategories, or of fetchProductCategoriesFromProducts, whose  *)
(* loop is taken one request at a time                                      *)

\* Pages whose answer is chosen one by one; every later page gets one answer.
MaxListedPages == 2

\* The largest maxPages option: the loop can go beyond the listed pages.
MaxPagesOption == MaxListedPages + 1

\* A total that spans two pages of FromProductsPageSize.
ManyProducts == 150

CategoryFlat == <<FlatItem(1, None), FlatItem(2, 1)>>
CategoryNested ==
    <<[id |-> 1, parentId |-> None, children |-> <<FlatItem(2, None)>>]>>

\* The products of page p: one product whose category has id p, with a link
\* to category 1 (written differently on every page), a link without a
\* category and a link whose category has no id.
PageProducts(p) ==
    <<Product(p * 10, Val(FlatItem(p, None)),
              <<Val(FlatItem(1, p)), NoCategory, Val(FlatItem(None, None))>>)>>

\* What the backend does with one request of a page: it fails, or answers
\* with the page's products, with or without a total and a pageSize, or with
\* no products, alone or under a total that tells of more pages.
PageAnswerKinds ==
    {[fails |-> TRUE, items |-> "none", total |-> "absent", pageSize |-> "absent"]}
    \cup [fails : {FALSE}, items : {"some"}, total : {"absent", "many"},
          pageSize : {"absent", "one"}]
    \cup {[fails |-> FALSE, items |-> "none", total |-> t, pageSize |-> t2] :
            <<t, t2>> \in {<<"absent", "absent">>, <<"many", "one">>}}

PageAnswer(kind, p) ==
    IF kind.fails THEN NoHttp
    ELSE [kind |-> "json",
          body |-> ProductsBody("object", NoArr,
              [NoFields EXCEPT
                  !.items = Val(IF kind.items = "some" THEN PageProducts(p) ELSE <<>>),
                  !.total = IF kind.total = "many" THEN Val(ManyProducts) ELSE Absent(0),
                  !.pageSize = IF kind.pageSize = "one" THEN Val(1) ELSE Absent(0)])]

AnswerKindAt(p) == IF p <= MaxListedPages THEN cfPages[p] ELSE cfBeyond

AnswerAt(p) == PageAnswer(AnswerKindAt(p), p)

FromProductsOptions ==
    [pageSize : {Absent(0), Val(0)},
     maxPages : {Absent(0)} \cup {Val(n) : n \in 0..MaxPagesOption}]

NoLoop == [LoopStart EXCEPT !.broke = TRUE]

CatsInit ==
    /\ \/ /\ cfCase = "services"
          /\ cfTreeHttp \in ListHttp(ServiceLists)
          /\ cfListHttp \in ListHttp({ServiceFlat})
          /\ cfCatHttp = NoListHttp
          /\ cfProducts = "fail"
          /\ cfOptions = NoOptions
          /\ cfPages = [p \in 1..MaxListedPages |-> CHOOSE k \in PageAnswerKinds : k.fails]
          /\ cfBeyond = CHOOSE k \in PageAnswerKinds : k.fails
       \/ /\ cfCase = "categories"
          /\ cfTreeHttp = NoListHttp
          /\ cfListHttp = NoListHttp
          /\ cfCatHttp \in ListHttp({<<>>, CategoryFlat, CategoryNested})
          /\ cfProducts \in {"fail", "all", "capped"}
          /\ cfOptions = NoOptions
          /\ cfPages = [p \in 1..MaxListedPages |-> CHOOSE k \in PageAnswerKinds : k.fails]
          /\ cfBeyond = CHOOSE k \in PageAnswerKinds : k.fails
       \/ /\ cfCase = "loop"
          /\ cfTreeHttp = NoListHttp
          /\ cfListHttp = NoListHttp
          /\ cfCatHttp = NoListHttp
          /\ cfProducts = "fail"
          /\ cfOptions \in FromProductsOptions
          /\ cfPages \in [1..MaxListedPages -> PageAnswerKinds]
          /\ cfBeyond \in PageAnswerKinds
    /\ cfLoop = IF cfCase = "loop" THEN LoopStart ELSE NoLoop
    /\ fsResult = Pending(<<>>)
    /\ fctResult = Pending(<<>>)
    /\ fcResult = Pending(<<>>)
    /\ ffpResult = Pending(<<>>)
    /\ TaxIdle
    /\ FetchIdle
    /\ PagingIdle
    /\ PageIdle
    /\ LoadIdle
    /\ SearchIdle
    /\ FlattenIdle
    /\ GroupIdle
    /\ CountIdle
    /\ SlugIdle
    /\ ContactIdle
    /\ MenuIdle

CallFetchServices ==
    /\ cfCase = "services"
    /\ fsResult.st = "pending"
    /\ fsResult' = fetchServices(cfTreeHttp, cfListHttp)
    /\ UNCHANGED <<cfCase, cfTreeHttp, cfListHttp, cfCatHttp, cfProducts, cfOptions,
                   cfPages, cfBeyond, cfLoop, fctResult, fcResult, ffpResult>>
    /\ UNCHANGED <<taxVars, fetchVars, pagingVars, pageVars, loadVars,
                   searchVars, flattenVars, groupVars, countVars, slugVars,
                   contactVars, menuVars>>

CallFetchProductCategoriesTree ==
    /\ cfCase = "categories"
    /\ fctResult.st = "pending"
    /\ fctResult' = fetchProductCategoriesTree(cfCatHttp)
    /\ UNCHANGED <<cfCase, cfTreeHttp, cfListHttp, cfCatHttp, cfProducts, cfOptions,
                   cfPages, cfBeyond, cfLoop, fsResult, fcResult, ffpResult>>
    /\ UNCHANGED <<taxVars, fetchVars, pagingVars, pageVars, loadVars,
                   searchVars, flattenVars, groupVars, countVars, slugVars,
                   contactVars, menuVars>>

CallFetchProductCategories ==
    /\ cfCase = "categories"
    /\ fcResult.st = "pending"
    /\ fcResult' = fetchProductCategories(cfCatHttp, ProductsAnswersOf(cfProducts))
    /\ UNCHANGED <<cfCase, cfTreeHttp, cfListHttp, cfCatHttp, cfProducts, cfOptions,
                   cfPages, cfBeyond, cfLoop, fsResult, fctResult, ffpResult>>
    /\ UNCHANGED <<taxVars, fetchVars, pagingVars, pageVars, loadVars,
                   searchVars, flattenVars, groupVars, countVars, slugVars,
                   contactVars, menuVars>>

\* One round of the loop of fetchProductCategoriesFromProducts(cfOptions):
\* the request for page cfLoop.page and what lines 162-177 do with the result.
FromProductsRequest ==
    /\ cfCase = "loop"
    /\ ffpResult.st = "pending"
    /\ LoopContinues(cfOptions, cfLoop)
    /\ cfLoop' = LoopIteration(cfOptions, cfLoop, AnswerAt(cfLoop.page))
    /\ UNCHANGED <<cfCase, cfTreeHttp, cfListHttp, cfCatHttp, cfProducts, cfOptions,
                   cfPages, cfBeyond, fsResult, fctResult, fcResult, ffpResult>>
    /\ UNCHANGED <<taxVars, fetchVars, pagingVars, pageVars, loadVars,
                   searchVars, flattenVars, groupVars, countVars, slugVars,
                   contactVars, menuVars>>

\* The loop is left and the function returns (line 181).
FromProductsReturn ==
    /\ cfCase = "loop"
    /\ ffpResult.st = "pending"
    /\ ~LoopContinues(cfOptions, cfLoop)
    /\ ffpResult' = Resolved(cfLoop.categories)
    /\ UNCHANGED <<cfCase, cfTreeHttp, cfListHttp, cfCatHttp, cfProducts, cfOptions,
                   cfPages, cfBeyond, cfLoop, fsResult, fctResult, fcResult>>
    /\ UNCHANGED <<taxVars, fetchVars, pagingVars, pageVars, loadVars,
                   searchVars, flattenVars, groupVars, countVars, slugVars,
                   contactVars, menuVars>>

CatsNext ==
    \/ CallFetchServices
    \/ CallFetchProductCategoriesTree
    \/ CallFetchProductCategories
    \/ FromProductsRequest
    \/ FromProductsReturn

SpecCats == CatsInit /\ [][CatsNext]_vars

\* An async function that is running takes its next step.
SpecCatsFair ==
    /\ CatsInit
    /\ [][CatsNext]_vars
    /\ WF_vars(FromProductsRequest)
    /\ WF_vars(FromProductsReturn)

----------------------------------------------------------------------------
(* SpecSearch: the header search of App.tsx (lines 473-496): the user types, *)
(* the effect debounces, requests go out and their responses come back in   *)
(* any order                                                                *)

MaxSearchChanges == 2

\* Texts of the search input: sequences of characters.
SearchTexts == {<<>>, <<" ">>, <<"a">>, <<"a", " ">>, <<"b">>}

IsWhiteSpace(c) == c = " "

RECURSIVE TrimStart(_)
TrimStart(text) ==
    IF text # <<>> /\ IsWhiteSpace(Head(text)) THEN TrimStart(Tail(text)) ELSE text

RECURSIVE TrimEnd(_)
TrimEnd(text) ==
    IF text # <<>> /\ IsWhiteSpace(text[Len(text)])
    THEN TrimEnd(SubSeq(text, 1, Len(text) - 1))
    ELSE text

\* String.prototype.trim
Trim(text) == TrimEnd(TrimStart(text))

\* The products the backend finds for a query.
Matching(query) == IF query = <<"a">> THEN <<11>> ELSE <<12, 13>>

\* A backend that does not apply the pageSize parameter answers with every
\* product it finds: here one more than the page size asked for.
Unpaged == [i \in 1..9 |-> 20 + i]

\* What the backend can do with GET /public/products?page=1&pageSize=8&q=query.
SearchHttp(query) ==
    {[kind |-> k, body |-> ProductsBody("null", NoArr, NoFields)] :
        k \in HttpKinds \ {"json"}}
    \cup {[kind |-> "json", body |-> b] :
            b \in {ProductsBody("null", NoArr, NoFields),
                   ProductsBody("array", Matching(query), NoFields),
                   ProductsBody("array", Unpaged, NoFields),
                   ProductsBody("object", NoArr, NoFields),
                   ProductsBody("object", NoArr,
                                [NoFields EXCEPT !.items = Val(Matching(query))])}}

SearchPageSize == 8

\* Line 483: fetchProductsPage({ page: 1, pageSize: 8, query })
SearchRequest(http) ==
    fetchProductsPage([page |-> Val(1), pageSize |-> Val(SearchPageSize)], http)

\* One run of the effect: the text it ran for, its locals `query` and
\* `mounted`, its timer, its request, and what its request was answered with.
SearchClosure(text, query, timer) ==
    [text |-> text, query |-> query, mounted |-> TRUE, timer |-> timer,
     request |-> "none", failed |-> FALSE, items |-> <<>>, discarded |-> FALSE]

\* Lines 476-480 return before a cleanup function exists; lines 492-495 are
\* the cleanup of a run that set a timer. clearTimeout stops a timer that
\* has not fired and does nothing to one that has.
SearchCleanupKeepsTimer(e) ==
    IF e.timer = "none" THEN e ELSE [e EXCEPT !.mounted = FALSE]

SearchCleanup(e) ==
    IF e.timer = "none" THEN e
    ELSE [e EXCEPT !.mounted = FALSE,
                   !.timer = IF @ = "pending" THEN "cleared" ELSE @]

\* Line 486: data.items || []. The items of a ProductsPage are an array,
\* and an array is truthy.
ItemsOrEmpty(data) == data.items

\* Lines 484-487 without the `mounted` test.
SearchThenUnguarded(e, data) == ItemsOrEmpty(data)

\* Lines 484-487: the value of searchResults after the then-callback.
SearchThen(e, data) ==
    IF ~e.mounted THEN searchResults ELSE ItemsOrEmpty(data)

\* A finally-callback that leaves searchLoading alone.
SearchFinallyKeeps(e) == searchLoading

\* Lines 488-490: the value of searchLoading after the finally-callback.
SearchFinally(e) ==
    IF e.mounted THEN FALSE ELSE searchLoading

CurrentSearch == searchEffects[Len(searchEffects)]

\* The App is mounted with an empty search text; the effect has run once.
SearchInit ==
    /\ TaxIdle
    /\ FetchIdle
    /\ PagingIdle
    /\ PageIdle
    /\ LoadIdle
    /\ CatsIdle
    /\ FlattenIdle
    /\ GroupIdle
    /\ CountIdle
    /\ SlugIdle
    /\ ContactIdle
    /\ MenuIdle
    /\ search = <<>>
    /\ searchResults = <<>>
    /\ searchLoading = FALSE
    /\ searchApp = TRUE
    /\ searchEffects = <<SearchClosure(<<>>, <<>>, "none")>>
    /\ searchChanges = 0

\* Line 990: onChange sets the text; the render that follows cleans the
\* previous run of the effect up and runs it again (lines 474-495).
SetSearch(text) ==
    /\ searchApp
    /\ text # search
    /\ searchChanges < MaxSearchChanges
    /\ search' = text
    /\ searchChanges' = searchChanges + 1
    /\ LET query == Trim(text)
           cleaned == [searchEffects EXCEPT ![Len(searchEffects)] = SearchCleanup(@)]
       IN  IF query = <<>>
           THEN /\ searchResults' = <<>>
                /\ searchLoading' = FALSE
                /\ searchEffects' = Append(cleaned, SearchClosure(text, query, "none"))
           ELSE /\ searchLoading' = TRUE
                /\ searchEffects' = Append(cleaned, SearchClosure(text, query, "pending"))
                /\ UNCHANGED searchResults
    /\ UNCHANGED searchApp
    /\ UNCHANGED <<taxVars, fetchVars, pagingVars, pageVars, loadVars,
                   catsVars, flattenVars, groupVars, countVars, slugVars,
                   contactVars, menuVars>>

\* Lines 482-483: the timer of run i fires and sends its request.
SearchTimer(i) ==
    /\ i \in DOMAIN searchEffects
    /\ searchEffects[i].timer = "pending"
    /\ searchEffects' = [searchEffects EXCEPT ![i].timer = "fired",
                                              ![i].request = "sent"]
    /\ UNCHANGED <<search, searchResults, searchLoading, searchApp, searchChanges>>
    /\ UNCHANGED <<taxVars, fetchVars, pagingVars, pageVars, loadVars,
                   catsVars, flattenVars, groupVars, countVars, slugVars,
                   contactVars, menuVars>>

\* Lines 484-490: the request of run i settles; its then-callback and its
\* finally-callback run.
SearchResponse(i, http) ==
    /\ i \in DOMAIN searchEffects
    /\ searchEffects[i].request = "sent"
    /\ LET e == searchEffects[i]
           data == SearchRequest(http).val
       IN  /\ searchResults' = SearchThen(e, data)
           /\ searchLoading' = SearchFinally(e)
           /\ searchEffects' = [searchEffects EXCEPT
                                   ![i].request = "settled",
                                   ![i].failed = apiGetThrows(http),
                                   ![i].items = ItemsOrEmpty(data),
                                   ![i].discarded = ~e.mounted]
    /\ UNCHANGED <<search, searchApp, searchChanges>>
    /\ UNCHANGED <<taxVars, fetchVars, pagingVars, pageVars, loadVars,
                   catsVars, flattenVars, groupVars, countVars, slugVars,
                   contactVars, menuVars>>

\* The App unmounts: the cleanup of the last run of the effect.
SearchUnmount ==
    /\ searchApp
    /\ searchApp' = FALSE
    /\ searchEffects' = [searchEffects EXCEPT ![Len(searchEffects)] = SearchCleanup(@)]
    /\ UNCHANGED <<search, searchResults, searchLoading, searchChanges>>
    /\ UNCHANGED <<taxVars, fetchVars, pagingVars, pageVars, loadVars,
                   catsVars, flattenVars, groupVars, countVars, slugVars,
                   contactVars, menuVars>>

SearchRuns == 1..(MaxSearchChanges + 1)

SetSearchAny == \E text \in SearchTexts : SetSearch(text)
SearchTimerAny == \E i \in SearchRuns : SearchTimer(i)
SearchResponseOf(i) ==
    \E http \in SearchHttp(IF i \in DOMAIN searchEffects THEN searchEffects[i].query
                           ELSE <<>>) :
        SearchResponse(i, http)
SearchResponseAny == \E i \in SearchRuns : SearchResponseOf(i)

SearchNext ==
    \/ SetSearchAny
    \/ SearchTimerAny
    \/ SearchResponseAny
    \/ SearchUnmount

SpecSearch == SearchInit /\ [][SearchNext]_vars

\* Every timer that is set fires unless it is cleared, and every request
\* that was sent settles.
SpecSearchFair ==
    /\ SearchInit
    /\ [][SearchNext]_vars
    /\ \A i \in SearchRuns : WF_vars(SearchTimer(i)) /\ WF_vars(SearchResponseOf(i))

----------------------------------------------------------------------------
(* SpecFlatten: flattenCategoryTree and flattenServicesTree called on every  *)
(* tree of up to MaxNodes nodes, whatever parentId its nodes come with       *)

MaxNodes == 3

\* The nodes carry the ids 1..n in the order the backend made them, which
\* need not be the order of the tree.
NodeIds(parents) == 1..Len(parents)

\* A parentId the backend wrote on a node: none, the id of a node, or an id
\* that no node carries.
GivenParentIds(n) == {None} \cup 1..(n + 1)

ChildrenOf(parents, p) ==
    SelectSeq([i \in 1..Len(parents) |-> i], LAMBDA i : parents[i] = p)

\* The node object of id i with its descendants nested in children.
RECURSIVE TreeNode(_, _, _)
TreeNode(parents, given, i) ==
    LET kids == ChildrenOf(parents, i)
    IN  [id       |-> i,
         parentId |-> given[i],
         children |-> [k \in 1..Len(kids) |-> TreeNode(parents, given, kids[k])]]

\* The array of the top-level nodes.
TreeOf(parents, given) ==
    LET tops == ChildrenOf(parents, 0)
    IN  [k \in 1..Len(tops) |-> TreeNode(parents, given, tops[k])]

FlattenInit ==
    /\ \E n \in 0..MaxNodes :
          /\ flParents \in {f \in [1..n -> 0..n] : \A i \in 1..n : f[i] < i}
          /\ flGiven \in [1..n -> GivenParentIds(n)]
    /\ flTree = TreeOf(flParents, flGiven)
    /\ flCategories = <<>>
    /\ flServices = <<>>
    /\ flDone = {}
    /\ TaxIdle
    /\ FetchIdle
    /\ PagingIdle
    /\ PageIdle
    /\ LoadIdle
    /\ CatsIdle
    /\ SearchIdle
    /\ GroupIdle
    /\ CountIdle
    /\ SlugIdle
    /\ ContactIdle
    /\ MenuIdle

\* flattenCategoryTree(tree), as fetchProductCategories and the App call it
CallFlattenCategoryTree ==
    /\ "categories" \notin flDone
    /\ flCategories' = flattenCategoryTree(flTree, None)
    /\ flDone' = flDone \cup {"categories"}
    /\ UNCHANGED <<flParents, flGiven, flTree, flServices>>
    /\ UNCHANGED <<taxVars, fetchVars, pagingVars, pageVars, loadVars,
                   catsVars, searchVars, groupVars, countVars, slugVars,
                   contactVars, menuVars>>

\* flattenServicesTree(tree), as fetchServices and the App call it
CallFlattenServicesTree ==
    /\ "services" \notin flDone
    /\ flServices' = flattenServicesTree(flTree, None)
    /\ flDone' = flDone \cup {"services"}
    /\ UNCHANGED <<flParents, flGiven, flTree, flCategories>>
    /\ UNCHANGED <<taxVars, fetchVars, pagingVars, pageVars, loadVars,
                   catsVars, searchVars, groupVars, countVars, slugVars,
                   contactVars, menuVars>>

FlattenNext ==
    \/ CallFlattenCategoryTree
    \/ CallFlattenServicesTree

SpecFlatten == FlattenInit /\ [][FlattenNext]_vars

----------------------------------------------------------------------------
(* SpecGroups: the group filters of the services and pages sections of      *)
(* App.tsx (lines 498-545): the data is set, the user picks groups, and the *)
(* selection-reset effects run                                              *)

\* The value "all" of both selections; the ids are 1, 2, ...
AllGroups == 0

\* Largest number of services in the loaded tree.
MaxGroupServices == 3

\* How many times the data may be set.
MaxDataChanges == 2

\* A page with the fields the filters read.
PageOf(id, parent_id, parent, sort_order) ==
    [id |-> id, parent_id |-> parent_id, parent |-> parent, sort_order |-> sort_order]

\* page.parent_id || page.parent?.id || null; `parent` holds the id of the
\* parent object, None when there is no such object.
getPageParentId(page) ==
    IF page.parent_id # None THEN page.parent_id
    ELSE IF page.parent # None THEN page.parent
    ELSE None

\* The lists /public/pages answers with: top-level pages, a page under
\* another by parent_id or by its parent object, a page whose parent is not
\* in the list. The second page sorts before the first.
GroupPageLists ==
    {<<>>,
     <<PageOf(1, None, None, 5)>>,
     <<PageOf(1, None, None, 5), PageOf(2, None, None, 0)>>,
     <<PageOf(1, None, None, 5), PageOf(2, 1, None, 0)>>,
     <<PageOf(1, None, None, 5), PageOf(2, None, 1, 0)>>,
     <<PageOf(1, 3, None, 5), PageOf(2, None, None, 0)>>}

\* Array.prototype.sort with a comparator on a key: stable, ascending;
\* key[x] is the key of entry x.
RECURSIVE SortedBy(_, _)
SortedBy(list, key) ==
    IF Len(list) = 0 THEN <<>>
    ELSE LET rest == SortedBy(Tail(list), key)
             before == SelectSeq(rest, LAMBDA x : key[x] < key[Head(list)])
             after == SelectSeq(rest, LAMBDA x : key[x] >= key[Head(list)])
         IN  before \o <<Head(list)>> \o after

\* Lines 498-502; the names of the services are in the order of their ids.
serviceGroupsOf(list) ==
    SortedBy(SelectSeq(list, LAMBDA service : service.parentId = None),
             [service \in Range(list) |-> service.id])

\* Lines 504-509
filteredServicesOf(list, selected) ==
    IF selected = AllGroups THEN list
    ELSE SelectSeq(list, LAMBDA service :
             service.id = selected \/ service.parentId = selected)

\* Lines 511-515
pageGroupsOf(list) ==
    SortedBy(SelectSeq(list, LAMBDA page : getPageParentId(page) = None),
             [page \in Range(list) |-> page.sort_order])

\* Lines 517-523
filteredPagesOf(list, selected) ==
    IF selected = AllGroups THEN list
    ELSE SelectSeq(list, LAMBDA page :
             page.id = selected \/ getPageParentId(page) = selected)

serviceGroups == serviceGroupsOf(groupServices)
filteredServices == filteredServicesOf(groupServices, selectedServiceGroupId)
pageGroups == pageGroupsOf(groupPages)
filteredPages == filteredPagesOf(groupPages, selectedPageGroupId)

\* An effect that leaves the selection as it is.
ServiceGroupKept == selectedServiceGroupId

\* Lines 535-539: the selection after the effect.
ServiceGroupAfterEffect ==
    IF selectedServiceGroupId = AllGroups THEN selectedServiceGroupId
    ELSE IF \E k \in 1..Len(serviceGroups) : serviceGroups[k].id = selectedServiceGroupId
    THEN selectedServiceGroupId
    ELSE AllGroups

\* Lines 541-545: the selection after the effect.
PageGroupAfterEffect ==
    IF selectedPageGroupId = AllGroups THEN selectedPageGroupId
    ELSE IF \E k \in 1..Len(pageGroups) : pageGroups[k].id = selectedPageGroupId
    THEN selectedPageGroupId
    ELSE AllGroups

\* The App after its first render and effects: nothing loaded, "all" selected.
GroupInit ==
    /\ groupParents = <<>>
    /\ groupServices = <<>>
    /\ groupPages = <<>>
    /\ selectedServiceGroupId = AllGroups
    /\ selectedPageGroupId = AllGroups
    /\ groupEffectsPending = FALSE
    /\ groupChanges = 0
    /\ groupResets = {}
    /\ TaxIdle
    /\ FetchIdle
    /\ PagingIdle
    /\ PageIdle
    /\ LoadIdle
    /\ CatsIdle
    /\ SearchIdle
    /\ FlattenIdle
    /\ CountIdle
    /\ SlugIdle
    /\ ContactIdle
    /\ MenuIdle

\* Lines 387-396: setPages and setServices with what a load brought; every
\* nested service carries its tree parent's id.
GroupDataSet(parents, pageList) ==
    /\ groupChanges < MaxDataChanges
    /\ groupParents' = parents
    /\ groupServices' = flattenServicesTree(TreeOf(parents, parents), None)
    /\ groupPages' = pageList
    /\ groupEffectsPending' = TRUE
    /\ groupChanges' = groupChanges + 1
    /\ UNCHANGED <<selectedServiceGroupId, selectedPageGroupId, groupResets>>
    /\ UNCHANGED <<taxVars, fetchVars, pagingVars, pageVars, loadVars,
                   catsVars, searchVars, flattenVars, countVars, slugVars,
                   contactVars, menuVars>>

\* Line 1082: the user picks an option of the select, which is rendered
\* while there are groups (line 1076).
SelectServiceGroup(g) ==
    /\ Len(serviceGroups) > 0
    /\ g \in {AllGroups} \cup {serviceGroups[k].id : k \in 1..Len(serviceGroups)}
    /\ g # selectedServiceGroupId
    /\ selectedServiceGroupId' = g
    /\ groupEffectsPending' = TRUE
    /\ UNCHANGED <<groupParents, groupServices, groupPages, selectedPageGroupId,
                   groupChanges, groupResets>>
    /\ UNCHANGED <<taxVars, fetchVars, pagingVars, pageVars, loadVars,
                   catsVars, searchVars, flattenVars, countVars, slugVars,
                   contactVars, menuVars>>

\* Line 1127
SelectPageGroup(g) ==
    /\ Len(pageGroups) > 0
    /\ g \in {AllGroups} \cup {pageGroups[k].id : k \in 1..Len(pageGroups)}
    /\ g # selectedPageGroupId
    /\ selectedPageGroupId' = g
    /\ groupEffectsPending' = TRUE
    /\ UNCHANGED <<groupParents, groupServices, groupPages, selectedServiceGroupId,
                   groupChanges, groupResets>>
    /\ UNCHANGED <<taxVars, fetchVars, pagingVars, pageVars, loadVars,
                   catsVars, searchVars, flattenVars, countVars, slugVars,
                   contactVars, menuVars>>

\* The two selection-reset effects of a committed render (lines 535-545); a
\* reset is a state change, whose render has effects of its own.
RunGroupEffects ==
    /\ groupEffectsPending
    /\ selectedServiceGroupId' = ServiceGroupAfterEffect
    /\ selectedPageGroupId' = PageGroupAfterEffect
    /\ groupEffectsPending' =
          (ServiceGroupAfterEffect # selectedServiceGroupId
              \/ PageGroupAfterEffect # selectedPageGroupId)
    /\ groupResets' = groupResets
          \cup (IF ServiceGroupAfterEffect # selectedServiceGroupId
                THEN {"service"} ELSE {})
          \cup (IF PageGroupAfterEffect # selectedPageGroupId THEN {"page"} ELSE {})
    /\ UNCHANGED <<groupParents, groupServices, groupPages, groupChanges>>
    /\ UNCHANGED <<taxVars, fetchVars, pagingVars, pageVars, loadVars,
                   catsVars, searchVars, flattenVars, countVars, slugVars,
                   contactVars, menuVars>>

ServiceTreeShapes(n) == {f \in [1..n -> 0..n] : \A i \in 1..n : f[i] < i}

GroupDataSetAny ==
    \E n \in 0..MaxGroupServices : \E parents \in ServiceTreeShapes(n) :
        \E pageList \in GroupPageLists : GroupDataSet(parents, pageList)
SelectServiceGroupAny == \E g \in 0..MaxGroupServices : SelectServiceGroup(g)
SelectPageGroupAny == \E g \in 0..2 : SelectPageGroup(g)

GroupNext ==
    \/ GroupDataSetAny
    \/ SelectServiceGroupAny
    \/ SelectPageGroupAny
    \/ RunGroupEffects

SpecGroups == GroupInit /\ [][GroupNext]_vars

----------------------------------------------------------------------------
(* SpecCounts: the category filter of the earlier revisions of the App      *)
(* (part_000): the products come with the load, the categories and their    *)
(* counts are derived from them, and the user picks a category              *)

AllCategories == 0

MaxListedProducts == 2

\* A category is written as its id; its sortOrder and its name follow the
\* order of the ids. 0 stands for a product without category and for a link
\* without category (types.ts lines 95-105).
CountCategoryIds == {1, 2}
CountLinkLists == {<<>>, <<0>>, <<1>>, <<2>>, <<1, 1>>, <<1, 2>>}

CountProductOf(id, category, categoryLinks) ==
    [id |-> id, category |-> category, categoryLinks |-> categoryLinks]

\* The product lists the backend can answer with.
CountProductLists ==
    UNION {{[k \in 1..n |-> CountProductOf(k, shape[k][1], shape[k][2])] :
               shape \in [1..n -> (CountCategoryIds \cup {0}) \X CountLinkLists]} :
           n \in 0..MaxListedProducts}

\* part_000 lines 50-59
extractProductCategories(product) ==
    (IF product.category # 0 THEN <<product.category>> ELSE <<>>)
    \o SelectSeq(product.categoryLinks, LAMBDA link : link # 0)

\* part_000 lines 271-278: one category of one product meets the Map, whose
\* entries are kept in insertion order.
CountCategory(map, cat) ==
    IF \E k \in 1..Len(map) : map[k].category = cat
    THEN [k \in 1..Len(map) |->
             IF map[k].category = cat THEN [map[k] EXCEPT !.count = @ + 1]
             ELSE map[k]]
    ELSE Append(map, [category |-> cat, count |-> 1])

\* part_000 lines 270-279: cats.forEach
RECURSIVE CountCategories(_, _)
CountCategories(map, cats) ==
    IF cats = <<>> THEN map
    ELSE CountCategories(CountCategory(map, Head(cats)), Tail(cats))

\* part_000 lines 268-280: products.forEach
RECURSIVE CountAll(_, _)
CountAll(map, list) ==
    IF list = <<>> THEN map
    ELSE CountAll(CountCategories(map, extractProductCategories(Head(list))),
                  Tail(list))

\* part_000 lines 267-288
categoriesOf(list) ==
    LET counted == SelectSeq(CountAll(<<>>, list), LAMBDA item : item.count > 0)
    IN  SortedBy(counted, [item \in Range(counted) |-> item.category])

\* part_000 lines 308-313
filteredProductsOf(list, selected) ==
    IF selected = AllCategories THEN list
    ELSE SelectSeq(list, LAMBDA product :
             \E k \in 1..Len(extractProductCategories(product)) :
                 extractProductCategories(product)[k] = selected)

categories == categoriesOf(countProducts)
filteredProducts == filteredProductsOf(countProducts, selectedCategoryId)

CountInit ==
    /\ countProducts = <<>>
    /\ selectedCategoryId = AllCategories
    /\ countLoaded = FALSE
    /\ TaxIdle
    /\ FetchIdle
    /\ PagingIdle
    /\ PageIdle
    /\ LoadIdle
    /\ CatsIdle
    /\ SearchIdle
    /\ FlattenIdle
    /\ GroupIdle
    /\ SlugIdle
    /\ ContactIdle
    /\ MenuIdle

\* part_000 lines 153-170: the load sets the products, once (the effect has
\* no dependencies), so the options of the select stay as they are and the
\* effect of lines 290-294 finds the selection among them.
CountProductsSet(list) ==
    /\ ~countLoaded
    /\ countProducts' = list
    /\ countLoaded' = TRUE
    /\ UNCHANGED selectedCategoryId
    /\ UNCHANGED <<taxVars, fetchVars, pagingVars, pageVars, loadVars,
                   catsVars, searchVars, flattenVars, groupVars, slugVars,
                   contactVars, menuVars>>

\* part_000 lines 702-717: the select is rendered while there are
\* categories; its options are "all" and the ids of the categories.
SelectCategory(c) ==
    /\ Len(categories) > 0
    /\ c = AllCategories \/ \E k \in 1..Len(categories) : categories[k].category = c
    /\ c # selectedCategoryId
    /\ selectedCategoryId' = c
    /\ UNCHANGED <<countProducts, countLoaded>>
    /\ UNCHANGED <<taxVars, fetchVars, pagingVars, pageVars, loadVars,
                   catsVars, searchVars, flattenVars, groupVars, slugVars,
                   contactVars, menuVars>>

CountProductsSetAny == \E list \in CountProductLists : CountProductsSet(list)
SelectCategoryAny == \E c \in CountCategoryIds \cup {AllCategories} : SelectCategory(c)

CountNext ==
    \/ CountProductsSetAny
    \/ SelectCategoryAny

SpecCounts == CountInit /\ [][CountNext]_vars

----------------------------------------------------------------------------
(* SpecSlug: one call of fetchProductBySlug against every answer of the     *)
(* backend                                                                  *)

MaxSlugItems == 2

Slugs == {"", "a", "b"}

SlugProduct(id, slug) == [id |-> id, slug |-> slug]
NoProduct == SlugProduct(0, "")

\* An entry of the response's list is a product or null.
SlugEntries == {Null(NoProduct), Val(SlugProduct(1, "a")), Val(SlugProduct(2, "b"))}
SlugItemLists == UNION {[1..n -> SlugEntries] : n \in 0..MaxSlugItems}

\* What the backend can do with GET /public/products?page=1&pageSize=1&slug=s
\* (without the slug parameter for an empty s, public.ts lines 105-107). The
\* list is the backend's choice: it need not be cut to pageSize and need not
\* be filtered by slug.
SlugHttp ==
    {[kind |-> k, body |-> ProductsBody("null", NoArr, NoFields)] :
        k \in HttpKinds \ {"json"}}
    \cup {[kind |-> "json", body |-> b] :
            b \in {ProductsBody("null", NoArr, NoFields),
                   ProductsBody("primitive", NoArr, NoFields)}
                  \cup {ProductsBody("array", l, NoFields) : l \in SlugItemLists}
                  \cup {ProductsBody("object", NoArr, [NoFields EXCEPT !.items = Val(l)]) :
                           l \in SlugItemLists}
                  \cup {ProductsBody("object", NoArr, [NoFields EXCEPT !.data = Val(l)]) :
                           l \in SlugItemLists}}

\* Line 132
SlugRequest(http) == fetchProductsPage([page |-> Val(1), pageSize |-> Val(1)], http)

\* fetchProductBySlug that returns the last item of the page.
fetchProductBySlugLast(slug, http) ==
    LET result == SlugRequest(http)
        items == result.val.items
    IN  IF result.st = "rejected" THEN Rejected(Null(NoProduct))
        ELSE IF Len(items) = 0 \/ Falsy(items[Len(items)])
             THEN Resolved(Null(NoProduct))
             ELSE Resolved(items[Len(items)])

\* Lines 131-134: result.items[0] || null. Reading [0] of an empty array
\* gives undefined; the slug is part of the request only.
fetchProductBySlug(slug, http) ==
    LET result == SlugRequest(http)
        items == result.val.items
    IN  IF result.st = "rejected" THEN Rejected(Null(NoProduct))
        ELSE IF Len(items) = 0 \/ Falsy(items[1])
             THEN Resolved(Null(NoProduct))
             ELSE Resolved(items[1])

SlugInit ==
    /\ slugAsked \in Slugs
    /\ slugHttp \in SlugHttp
    /\ slugResult = Pending(Null(NoProduct))
    /\ TaxIdle
    /\ FetchIdle
    /\ PagingIdle
    /\ PageIdle
    /\ LoadIdle
    /\ CatsIdle
    /\ SearchIdle
    /\ FlattenIdle
    /\ GroupIdle
    /\ CountIdle
    /\ ContactIdle
    /\ MenuIdle

FetchProductBySlugCall ==
    /\ slugResult.st = "pending"
    /\ slugResult' = fetchProductBySlug(slugAsked, slugHttp)
    /\ UNCHANGED <<slugAsked, slugHttp>>
    /\ UNCHANGED <<taxVars, fetchVars, pagingVars, pageVars, loadVars,
                   catsVars, searchVars, flattenVars, groupVars, countVars,
                   contactVars, menuVars>>

SlugNext == FetchProductBySlugCall

SpecSlug == SlugInit /\ [][SlugNext]_vars

----------------------------------------------------------------------------
(* SpecContact: the contact form of the App: the form is loaded, the user   *)
(* edits fields, submits and resets (App.tsx lines 426-461, 548-592)        *)

MaxSubmits == 2

\* A value of contactFormData: a string or an array of strings.
StringValue(text) == [kind |-> "string", text |-> text, list |-> <<>>]
ArrayValue(list) == [kind |-> "array", text |-> "", list |-> list]

ContactField(name, type) == [name |-> name, type |-> type]

\* types.ts lines 76-83; thankYouMessage is optional.
ContactFormOf(id, fields, thankYouMessage) ==
    [id |-> id, fields |-> fields, thankYouMessage |-> thankYouMessage]

NoForm == ContactFormOf(0, <<>>, Absent(""))

ContactFieldLists ==
    {<<>>,
     <<ContactField("email", "text")>>,
     <<ContactField("email", "text"), ContactField("topics", "checkbox")>>}

ContactForms ==
    {ContactFormOf(1, fields, thanks) :
        fields \in ContactFieldLists, thanks \in {Absent(""), Val("Thank you")}}

ContactTexts == {"", "x"}
ContactOptions == {"o1", "o2"}

EmptyData == [name \in {} |-> StringValue("")]

\* Lines 75-78
getDefaultFieldValueString(field) == StringValue("")

getDefaultFieldValue(field) ==
    IF field.type = "checkbox" THEN ArrayValue(<<>>) ELSE StringValue("")

\* Lines 571-574, 585-588 and 447-450: an object with the default of every
\* field of the form.
DefaultData(form) ==
    [name \in {form.fields[k].name : k \in 1..Len(form.fields)} |->
        getDefaultFieldValue(
            CHOOSE field \in Range(form.fields) : field.name = name)]

\* { ...prev, [name]: value }
WithField(prev, name, value) ==
    [n \in DOMAIN prev \cup {name} |-> IF n = name THEN value ELSE prev[n]]

\* The form element is rendered (lines 1177-1182).
ContactFormRendered == ~contactFormLoading /\ contactForm # NoForm

\* What the POST of submitContactForm can do (public.ts lines 223-236):
\* fetch rejects with an error of some message, the status is not 2xx and
\* the body has the text given, res.json() cannot read the body, or a JSON
\* value arrives.
SubmitHttp ==
    {[kind |-> "networkError", text |-> "Failed to fetch"],
     [kind |-> "networkError", text |-> ""],
     [kind |-> "httpError", text |-> "Invalid email"],
     [kind |-> "httpError", text |-> ""],
     [kind |-> "badJson", text |-> "Unexpected end of JSON input"],
     [kind |-> "json", text |-> ""]}

\* public.ts lines 223-236: the promise, rejected with the error's message.
submitContactForm(http) ==
    CASE http.kind = "json" -> Resolved("")
      [] http.kind = "httpError" ->
            Rejected(IF http.text # "" THEN http.text ELSE "Request failed (500)")
      [] OTHER -> Rejected(http.text)

\* Line 567 without the call of setContactFormSuccess(null).
SuccessKeptAtSubmit == contactFormSuccess

\* Line 567
SuccessAtSubmit == Null("")

\* The App is mounted; the contact-form effect has started its request
\* (lines 357-363, 428-429).
ContactInit ==
    /\ contactForm = NoForm
    /\ contactFormNote = Null("")
    /\ contactFormData = EmptyData
    /\ contactFormLoading = TRUE
    /\ contactFormSubmitting = FALSE
    /\ contactFormError = Null("")
    /\ contactFormSuccess = Null("")
    /\ contactInFlight = <<>>
    /\ contactOutcomes = <<>>
    /\ contactCalls = 0
    /\ TaxIdle
    /\ FetchIdle
    /\ PagingIdle
    /\ PageIdle
    /\ LoadIdle
    /\ CatsIdle
    /\ SearchIdle
    /\ FlattenIdle
    /\ GroupIdle
    /\ CountIdle
    /\ SlugIdle
    /\ MenuIdle

\* Lines 429-456: the requests of the effect have settled; the then-callback
\* and the finally-callback run. bySlug is the form fetchContactFormBySlug
\* resolved to (NoForm for null), forms what fetchContactForms resolved to;
\* a body that is no array makes forms[0] throw, and the callback ends there.
ContactFormLoaded(bySlug, forms) ==
    /\ contactFormLoading
    /\ LET thrown == bySlug = NoForm /\ ~forms.array
           selectedForm == IF bySlug # NoForm THEN bySlug
                           ELSE IF Len(forms.list) > 0 THEN forms.list[1]
                           ELSE NoForm
       IN  IF thrown
           THEN UNCHANGED <<contactForm, contactFormNote, contactFormData>>
           ELSE /\ contactForm' = selectedForm
                /\ contactFormNote' = IF bySlug = NoForm /\ selectedForm # NoForm
                                      THEN Val("Using form") ELSE Null("")
                /\ contactFormData' = IF Len(selectedForm.fields) > 0
                                      THEN DefaultData(selectedForm) ELSE EmptyData
    /\ contactFormLoading' = FALSE
    /\ UNCHANGED <<contactFormSubmitting, contactFormError, contactFormSuccess,
                   contactInFlight, contactOutcomes, contactCalls>>
    /\ UNCHANGED <<taxVars, fetchVars, pagingVars, pageVars, loadVars,
                   catsVars, searchVars, flattenVars, groupVars, countVars,
                   slugVars, menuVars>>

\* Lines 548-550, called by the inputs of the fields that are no checkbox.
handleContactFieldChange(field, value) ==
    /\ ContactFormRendered
    /\ field \in Range(contactForm.fields)
    /\ field.type # "checkbox"
    /\ contactFormData' = WithField(contactFormData, field.name, StringValue(value))
    /\ contactFormData' # contactFormData
    /\ UNCHANGED <<contactForm, contactFormNote, contactFormLoading,
                   contactFormSubmitting, contactFormError, contactFormSuccess,
                   contactInFlight, contactOutcomes, contactCalls>>
    /\ UNCHANGED <<taxVars, fetchVars, pagingVars, pageVars, loadVars,
                   catsVars, searchVars, flattenVars, groupVars, countVars,
                   slugVars, menuVars>>

\* Lines 552-560, called by the boxes of a checkbox field.
handleContactCheckboxChange(field, option, checked) ==
    /\ ContactFormRendered
    /\ field \in Range(contactForm.fields)
    /\ field.type = "checkbox"
    /\ LET prev == contactFormData
           current == IF field.name \in DOMAIN prev /\ prev[field.name].kind = "array"
                      THEN prev[field.name].list ELSE <<>>
           next == IF checked
                   THEN IF option \in Range(current) THEN current
                        ELSE Append(current, option)
                   ELSE SelectSeq(current, LAMBDA item : item # option)
       IN  contactFormData' = WithField(prev, field.name, ArrayValue(next))
    /\ contactFormData' # contactFormData
    /\ UNCHANGED <<contactForm, contactFormNote, contactFormLoading,
                   contactFormSubmitting, contactFormError, contactFormSuccess,
                   contactInFlight, contactOutcomes, contactCalls>>
    /\ UNCHANGED <<taxVars, fetchVars, pagingVars, pageVars, loadVars,
                   catsVars, searchVars, flattenVars, groupVars, countVars,
                   slugVars, menuVars>>

\* Lines 562-569: handleContactSubmit up to its await. With no form it
\* returns at line 564. The submit button is disabled while
\* contactFormSubmitting (line 1243), and there is no form element to
\* submit before a form is rendered.
handleContactSubmit ==
    /\ contactCalls < MaxSubmits
    /\ contactCalls' = contactCalls + 1
    /\ IF contactForm = NoForm
       THEN UNCHANGED <<contactFormSubmitting, contactFormError,
                        contactFormSuccess, contactInFlight>>
       ELSE /\ ContactFormRendered
            /\ ~contactFormSubmitting
            /\ contactFormSubmitting' = TRUE
            /\ contactFormError' = Null("")
            /\ contactFormSuccess' = SuccessAtSubmit
            /\ contactInFlight' = Append(contactInFlight,
                   [contactForm |-> contactForm, contactFormData |-> contactFormData])
    /\ UNCHANGED <<contactForm, contactFormNote, contactFormData,
                   contactFormLoading, contactOutcomes>>
    /\ UNCHANGED <<taxVars, fetchVars, pagingVars, pageVars, loadVars,
                   catsVars, searchVars, flattenVars, groupVars, countVars,
                   slugVars, menuVars>>

\* Lines 569-580: submitContactForm settles and handleContactSubmit runs to
\* its end: the rest of the try block, or the catch block, and the finally
\* block.
ContactSubmitSettled(http) ==
    /\ contactInFlight # <<>>
    /\ LET closure == Head(contactInFlight)
           posted == submitContactForm(http)
       IN  IF posted.st = "resolved"
           THEN /\ contactFormSuccess' =
                       IF closure.contactForm.thankYouMessage.d = "val"
                          /\ closure.contactForm.thankYouMessage.v # ""
                       THEN Val(closure.contactForm.thankYouMessage.v)
                       ELSE Val("Thanks! We received your message.")
                /\ contactFormData' = DefaultData(closure.contactForm)
                /\ contactOutcomes' = Append(contactOutcomes, "success")
                /\ UNCHANGED contactFormError
           ELSE /\ contactFormError' =
                       Val(IF posted.val # "" THEN posted.val
                           ELSE "Failed to submit form.")
                /\ contactOutcomes' = Append(contactOutcomes, "failure")
                /\ UNCHANGED <<contactFormSuccess, contactFormData>>
    /\ contactFormSubmitting' = FALSE
    /\ contactInFlight' = Tail(contactInFlight)
    /\ UNCHANGED <<contactForm, contactFormNote, contactFormLoading, contactCalls>>
    /\ UNCHANGED <<taxVars, fetchVars, pagingVars, pageVars, loadVars,
                   catsVars, searchVars, flattenVars, groupVars, countVars,
                   slugVars, menuVars>>

\* Lines 583-592, called by the form's reset event.
handleContactReset ==
    /\ ContactFormRendered
    /\ contactFormData' = DefaultData(contactForm)
    /\ contactFormError' = Null("")
    /\ contactFormSuccess' = Null("")
    /\ <<contactFormData', contactFormError', contactFormSuccess'>>
           # <<contactFormData, contactFormError, contactFormSuccess>>
    /\ UNCHANGED <<contactForm, contactFormNote, contactFormLoading,
                   contactFormSubmitting, contactInFlight, contactOutcomes,
                   contactCalls>>
    /\ UNCHANGED <<taxVars, fetchVars, pagingVars, pageVars, loadVars,
                   catsVars, searchVars, flattenVars, groupVars, countVars,
                   slugVars, menuVars>>

ContactFormLists ==
    {[array |-> FALSE, list |-> <<>>], [array |-> TRUE, list |-> <<>>]}
    \cup {[array |-> TRUE, list |-> <<form>>] : form \in ContactForms}

ContactFormLoadedAny ==
    \E bySlug \in ContactForms \cup {NoForm} : \E forms \in ContactFormLists :
        ContactFormLoaded(bySlug, forms)
handleContactFieldChangeAny ==
    \E field \in UNION {Range(fields) : fields \in ContactFieldLists} :
        \E value \in ContactTexts : handleContactFieldChange(field, value)
handleContactCheckboxChangeAny ==
    \E field \in UNION {Range(fields) : fields \in ContactFieldLists} :
        \E option \in ContactOptions : \E checked \in BOOLEAN :
            handleContactCheckboxChange(field, option, checked)
ContactSubmitSettledAny == \E http \in SubmitHttp : ContactSubmitSettled(http)

ContactNext ==
    \/ ContactFormLoadedAny
    \/ handleContactFieldChangeAny
    \/ handleContactCheckboxChangeAny
    \/ handleContactSubmit
    \/ ContactSubmitSettledAny
    \/ handleContactReset

SpecContact == ContactInit /\ [][ContactNext]_vars

----------------------------------------------------------------------------
(* SpecMenus: the dropdowns, the search box and the mobile menu of the      *)
(* header (App.tsx lines 702-743, 857-890, 955-985; part_000 lines 315-398, *)
(* 422-456) under clicks and key presses                                    *)

MenuRevisions == {"current", "earlier"}

MenuKeys == {"Escape", "a"}

\* Lines 703 and 717-718: the listeners are on the window while a dropdown
\* is open; an effect that a click causes has run before the next event.
MenuListenersInstalled == productsMenuOpen \/ servicesMenuOpen

\* Lines 704-710: handleOutside, for a click whose target is inside an
\* element of class nav-item or not (a null target is not). The value is
\* the pair of dropdown flags the listener leaves, given those the click's
\* own handler left.
handleOutside(inNavItem, flags) ==
    IF MenuListenersInstalled /\ ~inNavItem THEN <<FALSE, FALSE>> ELSE flags

\* Lines 711-716: handleEscape
handleEscape(key, flags) ==
    IF MenuListenersInstalled /\ key = "Escape" THEN <<FALSE, FALSE>> ELSE flags

\* Line 861 without the call of setServicesMenuOpen(false).
ServicesMenuKeptAtProductsClick == servicesMenuOpen

\* Line 861
ServicesMenuAtProductsClick == FALSE

\* Line 727 without the call of setMobileMenuOpen(false).
MobileMenuKeptAtSearchOpen == mobileMenuOpen

\* Line 727
MobileMenuAtSearchOpen == FALSE

\* The names of the flags that are on before the step and off after it.
TurnedOff ==
    {name \in {"products", "services", "search", "mobile"} :
        \/ name = "products" /\ productsMenuOpen /\ ~productsMenuOpen'
        \/ name = "services" /\ servicesMenuOpen /\ ~servicesMenuOpen'
        \/ name = "search" /\ searchOpen /\ ~searchOpen'
        \/ name = "mobile" /\ mobileMenuOpen /\ ~mobileMenuOpen'}

MenuEvent(event) ==
    /\ menuLast' = [event |-> event, turnedOff |-> TurnedOff]
    /\ UNCHANGED menuRevision
    /\ UNCHANGED <<taxVars, fetchVars, pagingVars, pageVars, loadVars,
                   catsVars, searchVars, flattenVars, groupVars, countVars,
                   slugVars, contactVars>>

MenuInit ==
    /\ menuRevision \in MenuRevisions
    /\ productsMenuOpen = FALSE
    /\ servicesMenuOpen = FALSE
    /\ searchOpen = FALSE
    /\ mobileMenuOpen = FALSE
    /\ menuLast = [event |-> "none", turnedOff |-> {}]
    /\ TaxIdle
    /\ FetchIdle
    /\ PagingIdle
    /\ PageIdle
    /\ LoadIdle
    /\ CatsIdle
    /\ SearchIdle
    /\ FlattenIdle
    /\ GroupIdle
    /\ CountIdle
    /\ SlugIdle
    /\ ContactIdle

\* Lines 857-865: the Products button, which is inside a nav-item.
ProductsButtonClick ==
    /\ productsMenuOpen' = ~productsMenuOpen
    /\ servicesMenuOpen' = ServicesMenuAtProductsClick
    /\ UNCHANGED <<searchOpen, mobileMenuOpen>>
    /\ MenuEvent("productsButton")

\* Lines 882-890: the Services button, which is inside a nav-item.
ServicesButtonClick ==
    /\ servicesMenuOpen' = ~servicesMenuOpen
    /\ productsMenuOpen' = FALSE
    /\ UNCHANGED <<searchOpen, mobileMenuOpen>>
    /\ MenuEvent("servicesButton")

\* A click on something that has no handler of its own and is outside of
\* the nav-items.
OutsideClick ==
    /\ LET flags ==
               handleOutside(FALSE, <<productsMenuOpen, servicesMenuOpen>>)
       IN  /\ productsMenuOpen' = flags[1]
           /\ servicesMenuOpen' = flags[2]
    /\ UNCHANGED <<searchOpen, mobileMenuOpen>>
    /\ MenuEvent("outsideClick")

KeyDown(key) ==
    /\ LET flags ==
               handleEscape(key, <<productsMenuOpen, servicesMenuOpen>>)
       IN  /\ productsMenuOpen' = flags[1]
           /\ servicesMenuOpen' = flags[2]
    /\ UNCHANGED <<searchOpen, mobileMenuOpen>>
    /\ MenuEvent(key)

\* Lines 725-728 and 958-965: the open-search button, outside of the
\* nav-items, so that the window's listener closes the dropdowns.
handleSearchOpen ==
    /\ searchOpen' = TRUE
    /\ mobileMenuOpen' = MobileMenuAtSearchOpen
    /\ LET flags ==
               handleOutside(FALSE, <<productsMenuOpen, servicesMenuOpen>>)
       IN  /\ productsMenuOpen' = flags[1]
           /\ servicesMenuOpen' = flags[2]
    /\ MenuEvent("searchOpen")

\* Lines 730-732, 966-973 and 1005: the close-search button and the links
\* of the search results.
handleSearchClose ==
    /\ searchOpen' = FALSE
    /\ UNCHANGED mobileMenuOpen
    /\ LET flags ==
               handleOutside(FALSE, <<productsMenuOpen, servicesMenuOpen>>)
       IN  /\ productsMenuOpen' = flags[1]
           /\ servicesMenuOpen' = flags[2]
    /\ MenuEvent("searchClose")

\* Lines 734-737 and 977-984
handleMobileToggle ==
    /\ mobileMenuOpen' = ~mobileMenuOpen
    /\ searchOpen' = FALSE
    /\ LET flags ==
               handleOutside(FALSE, <<productsMenuOpen, servicesMenuOpen>>)
       IN  /\ productsMenuOpen' = flags[1]
           /\ servicesMenuOpen' = flags[2]
    /\ MenuEvent("mobileToggle")

\* Lines 739-743 (part_000 lines 396-398, where the dropdowns are left
\* alone): a link of the menu, inside a nav-item (the links of a dropdown)
\* or not (Home, About, Contact and the links of the mobile list).
handleMobileLinkClick(inNavItem) ==
    /\ mobileMenuOpen' = FALSE
    /\ LET flags ==
               handleOutside(inNavItem,
                   IF menuRevision = "current" THEN <<FALSE, FALSE>>
                   ELSE <<productsMenuOpen, servicesMenuOpen>>)
       IN  /\ productsMenuOpen' = flags[1]
           /\ servicesMenuOpen' = flags[2]
    /\ UNCHANGED searchOpen
    /\ MenuEvent(IF inNavItem THEN "dropdownLink" ELSE "menuLink")

\* part_000 lines 315-322 and 433-445: a category button of the Products
\* dropdown of the earlier revision.
handleCategorySelect ==
    /\ menuRevision = "earlier"
    /\ productsMenuOpen' = FALSE
    /\ UNCHANGED <<servicesMenuOpen, searchOpen, mobileMenuOpen>>
    /\ MenuEvent("categoryButton")

KeyDownAny == \E key \in MenuKeys : KeyDown(key)
handleMobileLinkClickAny == \E inNavItem \in BOOLEAN : handleMobileLinkClick(inNavItem)

MenuNext ==
    \/ ProductsButtonClick
    \/ ServicesButtonClick
    \/ OutsideClick
    \/ KeyDownAny
    \/ handleSearchOpen
    \/ handleSearchClose
    \/ handleMobileToggle
    \/ handleMobileLinkClickAny
    \/ handleCategorySelect

SpecMenus == MenuInit /\ [][MenuNext]_vars

----------------------------------------------------------------------------
(* Claims about the normalizer (SpecTax) *)

IdsOf(nodes) == [k \in 1..Len(nodes) |-> nodes[k].id]

\* Every node object reachable from an array of nodes.
RECURSIVE NodesOf(_)
NodesOf(nodes) ==
    UNION {{nodes[k]} \cup NodesOf(nodes[k].children) : k \in 1..Len(nodes)}

CountId(flat, id) == Cardinality({k \in 1..Len(flat) : flat[k].id = id})

\* C1: building the tree from a flat list with unique ids and flattening it
\* back yields every input id exactly once, for every parentId assignment
\* (missing parent, self parent and cycles included).
C1_RoundTripKeepsEveryId ==
    "flattenCategory" \in taxDone =>
        /\ \A i \in 1..Len(taxGiven) : CountId(taxCatFlat, taxGiven[i].id) = 1
        /\ Len(taxCatFlat) = Len(taxGiven)

\* The ids of the list's items whose parentId is x, in list order.
ExpectedChildIds(items, x) ==
    IdsOf(SelectSeq(items, LAMBDA it : it.parentId = x))

\* The ids of the items without a parentId or with one that no item carries.
ExpectedRootIds(items) ==
    IdsOf(SelectSeq(items,
        LAMBDA it : it.parentId = None \/ it.parentId \notin Range(IdsOf(items))))

\* C2: an item is among the children of node X exactly when its parentId is
\* X's id (X being in the input); every other item is a root; roots and
\* children are in input order; the input items are left as they were.
C2_PlacementByParentId ==
    /\ "buildCategory" \in taxDone =>
          /\ IdsOf(taxCatTree) = ExpectedRootIds(taxGiven)
          /\ \A node \in NodesOf(taxCatTree) :
                IdsOf(node.children) = ExpectedChildIds(taxGiven, node.id)
          /\ \A i \in 1..Len(taxGiven) :
                CategoryPlacement(taxGiven).children[taxGiven[i].id]
                    = ExpectedChildIds(taxGiven, taxGiven[i].id)
          /\ taxItems = taxGiven
    /\ "buildService" \in taxDone =>
          /\ IdsOf(taxSvcTree) = ExpectedRootIds(taxGiven)
          /\ \A node \in NodesOf(taxSvcTree) :
                IdsOf(node.children) = ExpectedChildIds(taxGiven, node.id)
          /\ \A i \in 1..Len(taxGiven) :
                ServicePlacement(taxGiven).children[taxGiven[i].id]
                    = ExpectedChildIds(taxGiven, taxGiven[i].id)
          /\ taxItems = taxGiven

\* A list of three whose second and third items are children of the first's
\* and of a missing parent, built by both builders.
C2_Witness ==
    /\ {"buildCategory", "buildService"} \subseteq taxDone
    /\ Len(taxGiven) = 3
    /\ \E i, j, k \in 1..3 :
          /\ j < k
          /\ taxGiven[j].parentId = taxGiven[i].id
          /\ taxGiven[k].parentId = taxGiven[i].id
    /\ \E r \in 1..Len(taxCatTree) : Len(taxCatTree[r].children) = 2

----------------------------------------------------------------------------
(* Claims about the api functions (SpecFetch) *)

\* The request failed, or its body is neither an object nor an array.
RequestFailed(http) ==
    http.kind # "json" \/ http.body.t \in {"null", "primitive"}

PageAsked == IF fpParams.page.d = "val" THEN fpParams.page.v ELSE 1
PageSizeAsked == IF fpParams.pageSize.d = "val" THEN fpParams.pageSize.v ELSE 20

\* C8: fetchProductsPage never rejects; on any failure of the request it
\* resolves to {items: [], total: 0, page, pageSize} with the requested page
\* and pageSize (1 and 20 when not given).
C8_ProductsPageNeverRejects ==
    fpResult.st # "pending" =>
        /\ fpResult.st = "resolved"
        /\ RequestFailed(fpHttp) =>
              fpResult.val = [items |-> <<>>, total |-> 0,
                              page |-> PageAsked, pageSize |-> PageSizeAsked]

\* A 2xx answer whose body is JSON null, asked for page 3 with the default pageSize.
C8_Witness ==
    /\ fpResult.st = "resolved"
    /\ fpHttp.kind = "json"
    /\ fpHttp.body.t = "null"
    /\ fpParams.page = Val(3)
    /\ fpParams.pageSize.d = "absent"

FirstPresent(fields, default) ==
    IF \E k \in 1..Len(fields) : fields[k].d = "val"
    THEN fields[CHOOSE k \in 1..Len(fields) :
                    /\ fields[k].d = "val"
                    /\ \A j \in 1..(k - 1) : fields[j].d # "val"].v
    ELSE default

\* C9: a bare array gives items = the array and total = its length; an object
\* gives items = the first present of items, data, results (else []), total =
\* total, else count, else the number of items, page = the response's page or
\* the requested one, pageSize = the response's pageSize, else limit, else the
\* requested one.
C9_ProductsPageNormalized ==
    (fpResult.st # "pending" /\ fpHttp.kind = "json") =>
        LET b == fpHttp.body
            r == fpResult.val
        IN  /\ b.t = "array" => (r.items = b.arr /\ r.total = Len(b.arr))
            /\ b.t = "object" =>
                  /\ r.items = FirstPresent(<<b.items, b.data, b.results>>, <<>>)
                  /\ r.total = FirstPresent(<<b.total, b.count>>, Len(r.items))
                  /\ r.page = FirstPresent(<<b.page>>, PageAsked)
                  /\ r.pageSize = FirstPresent(<<b.pageSize, b.limit>>, PageSizeAsked)

\* An object answer where every rule falls through to a later field:
\* items null, data present, total 0 with a count of 7, pageSize null, limit 10.
C9_Witness ==
    /\ fpResult.st = "resolved"
    /\ fpHttp.kind = "json"
    /\ fpHttp.body.t = "object"
    /\ fpHttp.body.items.d = "null"
    /\ fpHttp.body.data.d = "val"
    /\ fpHttp.body.total = Val(0)
    /\ fpHttp.body.count = Val(7)
    /\ fpHttp.body.page.d = "absent"
    /\ fpHttp.body.pageSize.d = "null"
    /\ fpHttp.body.limit = Val(10)
    /\ fpResult.val.total = 0
    /\ fpResult.val.pageSize = 10

\* C10: when the request to /public/services/tree fails and the request to
\* /public/services fails, fetchServicesTree resolves to the empty array.
C10_ServicesTreeResolvesEmpty ==
    (stResult.st # "pending" /\ apiGetThrows(stTreeHttp) /\ apiGetThrows(stListHttp)) =>
        (stResult.st = "resolved" /\ stResult.val = <<>>)

----------------------------------------------------------------------------
(* Claims about ProductsCategoryPage (SpecPaging, SpecPage, SpecPageFair) *)

\* C5: for every held total >= 0 and every integer or non-numeric page
\* parameter, totalPages = max(1, ceil(total / 20)) and
\* 1 <= currentPage <= totalPages; a missing, non-numeric or non-finite
\* parameter is treated as page 1.
C5_PagingWithinBounds ==
    pgOut.done =>
        /\ pgOut.totalPages >= 1
        /\ pgOut.totalPages * 20 >= pgTotal
        /\ pgOut.totalPages > 1 => (pgOut.totalPages - 1) * 20 < pgTotal
        /\ 1 <= pgOut.currentPage
        /\ pgOut.currentPage <= pgOut.totalPages
        /\ pgParam.kind \in {"absent", "empty", "text", "infinity"} =>
              pgOut.requestedPage = 1
        /\ pgParam.kind # "int" => pgOut.currentPage = 1

\* 21 products held and ?page=3 in the URL: two pages, the second is current.
C5_Witness ==
    /\ pgOut.done
    /\ pgTotal = 21
    /\ pgParam = IntParam(3)
    /\ pgOut.totalPages = 2
    /\ pgOut.currentPage = 2

\* The route was opened at ?page=p, p being a page of the category on the
\* backend, nothing has failed and the user has not navigated since.
OpenedAtExistingPage ==
    /\ pcMounted = "yes"
    /\ pcNavs = 0
    /\ ~pcFailed
    /\ pcOpened.param.kind = "int"
    /\ 1 <= pcOpened.param.n
    /\ (pcOpened.param.n - 1) * 20 < pcBackend[pcOpened.cat]

Settled == pcRequests = {} /\ ~EffectsPending

\* C6: opening the listing at ?page=p for an existing page p ends with page
\* p displayed: once the fetches settle, the URL's page is still p and the
\* items are the backend's page p.
C6_DeepLinkShowsRequestedPage ==
    (OpenedAtExistingPage /\ Settled) =>
        /\ pcUrlPage = pcOpened.param
        /\ pcItems = BackendPage(pcOpened.cat, pcOpened.param.n, pcBackend[pcOpened.cat])

\* A step of the sync effect that calls setSearchParams.
RewriteStep == pcRewrites' = pcRewrites + 1

\* The sync effect has yet to run for a render whose requested and current
\* page differ.
RewriteDue == pcMounted = "yes" /\ requestedPage # currentPage

\* C7: whenever the requested page differs from the current page the URL's
\* page parameter is rewritten to the current page, after which the two
\* agree; requested # current always leads to requested = current; and the
\* rewriting cannot loop: every rewrite after the first one since the user's
\* navigation lowers the page.
C7_PageSyncSettles ==
    /\ [][(RewriteDue /\ pcMounted' = "yes" /\ pcSyncDeps' # pcSyncDeps)
            <=> RewriteStep]_vars
    /\ [][RewriteStep =>
            /\ pcUrlPage' = IntParam(currentPage)
            /\ requestedPage' = currentPage'
            /\ pcRewrites >= 1 => requestedPage' < requestedPage]_vars
    /\ RewriteDue ~> (pcMounted = "gone" \/ requestedPage = currentPage)

\* After a rewrite (opened beyond the last page, or at a page the initial
\* total of 0 does not have) the first page's response has arrived.
C7_Witness ==
    /\ pcMounted = "yes"
    /\ pcRewrites = 1
    /\ pcOpened.param = IntParam(3)
    /\ pcUrlPage = IntParam(1)
    /\ pcRequests = {}
    /\ ~pcLoading
    /\ pcTotal > 20

----------------------------------------------------------------------------
(* Claims about the App's initial load (SpecLoad) *)

\* The parent-child pairs of a tree, by nesting.
TreeEdges(nodes) ==
    UNION {{<<node.id, node.children[k].id>> : k \in 1..Len(node.children)} :
              node \in NodesOf(nodes)}

TreeIds(nodes) == {node.id : node \in NodesOf(nodes)}

\* The parent-child pairs of the taxonomy itself.
TaxonomyEdges(T) ==
    {<<ParentOf(T, id), id>> : id \in ChildIds(T)}

IdParentPairs(list) == {<<list[i].id, list[i].parentId>> : i \in 1..Len(list)}

\* Some request to the categories endpoint brought the (non-empty) taxonomy.
CategoriesDelivered ==
    /\ Len(beTaxonomy) > 0
    /\ beCategories.tree = "ok" \/ beCategories.flat = "ok"

\* C3: for an acyclic taxonomy with unique ids, delivered flat (parentId
\* only) or nested (children arrays, parentId present or absent on children),
\* the applied load leaves in productCategoriesTree the taxonomy's own
\* parent-child structure (same categories, same top-level ones, same
\* parent-child pairs) and in productCategories the taxonomy's own set of
\* (id, parentId) pairs; so both deliveries give the same result.
C3_DeliveryFormsAgree ==
    (loadApplied /\ CategoriesDelivered /\ TaxonomyAcyclic(beTaxonomy)) =>
        /\ TreeIds(productCategoriesTree) = TaxonomyIds(beTaxonomy)
        /\ Range(IdsOf(productCategoriesTree))
               = TaxonomyIds(beTaxonomy) \ ChildIds(beTaxonomy)
        /\ TreeEdges(productCategoriesTree) = TaxonomyEdges(beTaxonomy)
        /\ IdParentPairs(productCategories) = IdParentPairs(beTaxonomy)

\* The chain 1 > 2 > 3 delivered nested with parentId left out on both
\* children, applied.
C3_Witness ==
    /\ loadApplied
    /\ beCategories.tree = "ok"
    /\ beDelivery = [form |-> "nested", omit |-> {2, 3}]
    /\ beTaxonomy = <<FlatItem(1, None), FlatItem(2, 1), FlatItem(3, 2)>>
    /\ TreeEdges(productCategoriesTree) = {<<1, 2>>, <<2, 3>>}
    /\ IdParentPairs(productCategories) = {<<1, None>>, <<2, 1>>, <<3, 2>>}

\* The ids of a tree's nodes, every node before its children and a node's
\* subtree before its next sibling.
RECURSIVE PreOrderIds(_)
PreOrderIds(nodes) ==
    IF Len(nodes) = 0 THEN <<>>
    ELSE <<Head(nodes).id>> \o PreOrderIds(Head(nodes).children)
            \o PreOrderIds(Tail(nodes))

\* C4: after the load was applied, a non-empty productCategoriesTree has
\* productCategories as its pre-order flattening (same ids in that order,
\* same number of entries); with an empty tree productCategories is the
\* list fetchProductCategories() resolved to.
C4_CategoriesFlattenTree ==
    loadApplied =>
        /\ Len(productCategoriesTree) > 0 =>
              /\ IdsOf(productCategories) = PreOrderIds(productCategoriesTree)
              /\ Len(productCategories) = Cardinality(NodesOf(productCategoriesTree))
        /\ Len(productCategoriesTree) = 0 =>
              productCategories = categoriesFlatRes.val

\* A flat delivery listing a child before its parent: the tree is built, and
\* its flattening differs from the fetched flat list.
C4_Witness ==
    /\ loadApplied
    /\ beDelivery.form = "flat"
    /\ beCategories = [tree |-> "ok", flat |-> "ok"]
    /\ Len(productCategoriesTree) > 0
    /\ \E k \in 1..Len(productCategoriesTree) : HasChildren(productCategoriesTree[k])
    /\ IdsOf(productCategories) # IdsOf(categoriesFlatRes.val)

----------------------------------------------------------------------------
(* Claims about the category and service fetchers (SpecCats, SpecCatsFair) *)

IsArray(v) == DOMAIN v = 1..Len(v)

----------------------------------------------------------------------------
(* Claims about the settling of the App's initial load (SpecLoad, SpecLoadFair) *)

\* One of the six promises handed to Promise.all rejected.
SomeFetchRejected ==
    \E res \in {pagesRes.st, menusRes.st, servicesTreeRes.st, categoriesTreeRes.st,
                categoriesFlatRes.st, productsRes.st} : res = "rejected"

\* C12: the initial load always comes to its end, whether the six fetches
\* succeed or one of them fails; from then on the loading flag of the mounted
\* App is false, and loading never goes back from false to true.
C12_LoadingPhaseEnds ==
    /\ <>(loadPhase = "done")
    /\ [](loadPhase = "done" /\ appMounted => ~loading)
    /\ [][~loading => ~loading']_vars

\* /public/pages failed, the load is over and the mounted App is not loading.
C12_Witness ==
    /\ loadPhase = "done"
    /\ appMounted
    /\ pagesRes.st = "rejected"
    /\ ~loading

\* C13: once the initial load is over, by success or by failure of one of the
\* six fetches, productCategoriesLoading and servicesLoading of the mounted
\* App are both false.
C13_DropdownsStopLoading ==
    (loadPhase = "done" /\ appMounted) =>
        (~productCategoriesLoading /\ ~servicesLoading)

\* C14: when one of the six fetches rejects, pages, menus, services,
\* servicesTree, productCategories, productCategoriesTree, products and
\* productTotal keep their initial empty values throughout.
C14_LoadAllOrNothing ==
    SomeFetchRejected =>
        /\ pages = <<>>
        /\ menus = <<>>
        /\ services = <<>>
        /\ servicesTree = <<>>
        /\ productCategories = <<>>
        /\ productCategoriesTree = <<>>
        /\ products = <<>>
        /\ productTotal = 0

\* /public/pages/menus failed while /public/pages answered with its pages: the
\* load is over and the pages are not shown.
C14_Witness ==
    /\ loadPhase = "done"
    /\ appMounted
    /\ menusRes.st = "rejected"
    /\ pagesRes = Resolved(Val(PageList))
    /\ categoriesTreeRes.val # <<>>
    /\ pages = <<>>
    /\ productCategoriesTree = <<>>

----------------------------------------------------------------------------
(* Claims about the header search (SpecSearch, SpecSearchFair) *)

\* The request of run i settles in this step.
SettlesNow(i) ==
    /\ i \in DOMAIN searchEffects
    /\ searchEffects[i].request = "sent"
    /\ searchEffects'[i].request = "settled"

\* C15: searchResults is only ever assigned from the response to the request
\* made for the current trimmed search text. Every step that changes
\* searchResults either empties it for a blank text, or stores the items of
\* the response that settles in this step to the request of the latest run
\* of the effect, whose query is the trimmed current text; a response to the
\* request of an earlier run leaves searchResults as it is.
C15_SearchStoresCurrentResponseOnly ==
    [][/\ searchResults' # searchResults =>
            \/ Trim(search') = <<>> /\ searchResults' = <<>>
            \/ /\ SettlesNow(Len(searchEffects))
               /\ searchApp
               /\ CurrentSearch.query = Trim(search)
               /\ searchResults' = searchEffects'[Len(searchEffects)].items
       /\ \A i \in SearchRuns :
            (SettlesNow(i) /\ i < Len(searchEffects)) => searchResults' = searchResults
      ]_vars

\* C15 witness: the response to an earlier text arrived with items after the
\* text had changed, and the results on screen are not those items.
C15_Witness ==
    /\ searchApp
    /\ \E i \in DOMAIN searchEffects :
          /\ i < Len(searchEffects)
          /\ searchEffects[i].request = "settled"
          /\ searchEffects[i].discarded
          /\ searchEffects[i].items # <<>>
          /\ searchEffects[i].query # CurrentSearch.query
          /\ searchResults # searchEffects[i].items
          /\ CurrentSearch.request = "settled"

\* The timer of run i fires in this step and its request goes out.
SendsNow(i) ==
    /\ i \in DOMAIN searchEffects
    /\ searchEffects[i].request = "none"
    /\ searchEffects'[i].request = "sent"

\* C16: a request is sent only by the run of the effect for the current text,
\* which is not blank and has not changed since the timer was set; a run
\* whose text was replaced before its timer fired has its timer cleared and
\* never sends; a run for a blank or whitespace-only text sets no timer and
\* sends nothing, and while the text is blank searchResults is empty and
\* searchLoading is false.
C16_SearchSendsAfterDebounceOnly ==
    /\ [][\A i \in SearchRuns :
            SendsNow(i) => /\ i = Len(searchEffects)
                           /\ searchApp
                           /\ searchEffects[i].text = search
                           /\ searchEffects[i].query = Trim(search)
                           /\ Trim(search) # <<>>]_vars
    /\ [](\A i \in DOMAIN searchEffects :
            /\ (i < Len(searchEffects) => searchEffects[i].timer # "pending")
            /\ (Trim(searchEffects[i].text) = <<>> =>
                    searchEffects[i].timer = "none" /\ searchEffects[i].request = "none"))
    /\ []((searchApp /\ Trim(search) = <<>>) =>
            (searchResults = <<>> /\ ~searchLoading /\ CurrentSearch.request = "none"))

\* C16 witness: one text was replaced before its timer fired, and the text
\* that replaced it stayed until its request went out and was answered.
C16_Witness ==
    /\ searchApp
    /\ \E i, j \in DOMAIN searchEffects :
          /\ i < j
          /\ searchEffects[i].timer = "cleared"
          /\ searchEffects[i].request = "none"
          /\ searchEffects[j].request = "settled"
          /\ searchEffects[j].items # <<>>
          /\ ~searchEffects[j].discarded
    /\ searchResults # <<>>

\* The search has settled on the response to the current text.
SearchSettled ==
    /\ ~searchLoading
    /\ CurrentSearch.request = "settled"
    /\ searchResults = CurrentSearch.items
    /\ (CurrentSearch.failed => searchResults = <<>>)

\* C17: after the n-th change of the text, to a non-blank value, either the
\* text changes again or the App unmounts, or the search settles:
\* searchLoading is false and searchResults holds the items of the response
\* to that text, the empty list when the request failed. searchLoading never
\* stays true forever while the App is mounted.
C17_SearchSettles ==
    /\ \A n \in 1..MaxSearchChanges :
          (searchChanges = n /\ searchApp /\ CurrentSearch.query # <<>>)
              ~> (searchChanges # n \/ ~searchApp \/ SearchSettled)
    /\ searchLoading ~> (~searchLoading \/ ~searchApp)
    /\ [](SearchSettled => CurrentSearch.query = Trim(search))

\* C17 witness: the last text's request failed after an earlier text's
\* results had been stored, and the search settled on the empty list.
C17_Witness ==
    /\ searchApp
    /\ searchChanges = MaxSearchChanges
    /\ CurrentSearch.query # <<>>
    /\ CurrentSearch.failed
    /\ SearchSettled
    /\ \E i \in DOMAIN searchEffects :
          /\ i < Len(searchEffects)
          /\ searchEffects[i].request = "settled"
          /\ ~searchEffects[i].discarded
          /\ searchEffects[i].items # <<>>

----------------------------------------------------------------------------
(* Claims about stale responses in ProductsCategoryPage (SpecPage) *)

\* Request r was made for an earlier (categoryId, page) than the latest.
EarlierRequest(r) ==
    \/ ~r.live
    \/ [cat |-> r.cat, page |-> r.page] # pcFetchDeps

\* The response to request r is handled in this step.
AnsweredNow(r) ==
    /\ r \in pcRequests
    /\ pcMounted' = pcMounted
    /\ pcRequests' = pcRequests \ {r}

----------------------------------------------------------------------------
(* Claims about the loop of fetchProductCategoriesFromProducts (SpecCatsFair) *)

\* What the backend's answer to the request for page p holds.
ItemsAt(p) == IF AnswerKindAt(p).items = "some" THEN PageProducts(p) ELSE <<>>

TotalAt(p) ==
    IF AnswerKindAt(p).total = "many" THEN ManyProducts ELSE Len(ItemsAt(p))

\* The page size of the response: the one the backend states, else the one
\* that was requested.
PageSizeAt(p) ==
    IF AnswerKindAt(p).pageSize = "one" THEN 1 ELSE OptionPageSize(cfOptions)

\* ceil(total / pageSize) of the response for page p; where the page size is
\* 0 the quotient does not exist and the function takes one page.
PageCountAt(p) ==
    IF PageSizeAt(p) = 0 THEN 1
    ELSE (TotalAt(p) + PageSizeAt(p) - 1) \div PageSizeAt(p)

\* The ids of the categories a product names, on itself or on its links.
CategoryIdsOfProduct(product) ==
    {f.v.id : f \in {g \in {product.category} \cup Range(product.categoryLinks) :
                       g.d = "val" /\ g.v.id # None}}

\* The category ids on the products of the pages requested so far.
CategoryIdsSeen ==
    UNION {UNION {CategoryIdsOfProduct(product) : product \in Range(ItemsAt(p))} :
              p \in Range(cfLoop.requests)}

\* The most requests the options allow.
RequestsAllowed ==
    IF cfOptions.maxPages.d = "val" THEN cfOptions.maxPages.v ELSE 50

\* The requests made so far are for pages 1, 2, 3, ... and each followed a
\* page with items that was not the last page its response told of.
RequestsInOrder ==
    /\ \A i \in 1..Len(cfLoop.requests) : cfLoop.requests[i] = i
    /\ Len(cfLoop.requests) <= RequestsAllowed
    /\ \A i \in 1..(Len(cfLoop.requests) - 1) :
          Len(ItemsAt(i)) > 0 /\ i + 1 <= PageCountAt(i)

\* Why the loop was left.
StoppedForCause ==
    \/ Len(cfLoop.requests) = RequestsAllowed
    \/ /\ Len(cfLoop.requests) > 0
       /\ \/ Len(ItemsAt(Len(cfLoop.requests))) = 0
          \/ Len(cfLoop.requests) + 1 > PageCountAt(Len(cfLoop.requests))

OneCategoryPerIdSeen ==
    /\ Range(IdsOf(ffpResult.val)) = CategoryIdsSeen
    /\ Len(ffpResult.val) = Cardinality(CategoryIdsSeen)

\* C19: fetchProductCategoriesFromProducts terminates; its requests are for
\* pages 1, 2, 3, ... in order and there are at most maxPages of them (50
\* without the option); no request follows a page without items, and none is
\* for a page past ceil(total / pageSize) of the response before it; the
\* array it returns has one category for every distinct category id on the
\* products and their categoryLinks of the requested pages, and no other.
C19_FromProductsTerminates ==
    /\ (cfCase = "loop") ~> (ffpResult.st = "resolved")
    /\ []((cfCase = "loop") => (RequestsInOrder /\ ffpResult.st # "rejected"))
    /\ []((cfCase = "loop" /\ ffpResult.st = "resolved") =>
             (StoppedForCause /\ OneCategoryPerIdSeen))

\* C19 witness: called without options against a backend with more pages
\* than the default maxPages, the function returned after 50 requests with
\* the categories of all 50 pages.
C19_Witness ==
    /\ cfCase = "loop"
    /\ cfOptions = NoOptions
    /\ ffpResult.st = "resolved"
    /\ Len(cfLoop.requests) = 50
    /\ Len(ffpResult.val) = 50
    /\ PageCountAt(50) > 50

----------------------------------------------------------------------------
(* Claims about the flatten functions (SpecFlatten) *)

\* Node a is node d or one of its ancestors in the tree.
RECURSIVE IsAncestorOrSelf(_, _, _)
IsAncestorOrSelf(parents, a, d) ==
    \/ a = d
    \/ d # 0 /\ parents[d] # 0 /\ IsAncestorOrSelf(parents, a, parents[d])

SubtreeOf(parents, i) == {d \in NodeIds(parents) : IsAncestorOrSelf(parents, i, d)}

\* Where node i stands in a list that holds every node once.
PositionIn(out, i) == CHOOSE k \in 1..Len(out) : out[k].id = i

\* Pre-order: one entry per node; a node and its descendants fill a block
\* of consecutive places that the node opens; siblings, and the top-level
\* nodes, stand in the order of their array.
IsPreOrder(out, parents) ==
    /\ Len(out) = Len(parents)
    /\ {out[k].id : k \in 1..Len(out)} = NodeIds(parents)
    /\ \A i \in NodeIds(parents) :
          {PositionIn(out, d) : d \in SubtreeOf(parents, i)} =
              PositionIn(out, i)..(PositionIn(out, i) + Cardinality(SubtreeOf(parents, i)) - 1)
    /\ \A i, j \in NodeIds(parents) :
          (i < j /\ parents[i] = parents[j]) => PositionIn(out, i) < PositionIn(out, j)

\* The entry of each node is the node as given, children included, but for
\* the parentId of a nested node that came without one: the id of its tree
\* parent.
EntriesNormalized(out, parents, given) ==
    \A k \in 1..Len(out) :
        LET node == TreeNode(parents, given, out[k].id)
        IN  /\ out[k].children = node.children
            /\ out[k].parentId =
                  IF given[node.id] # None THEN given[node.id]
                  ELSE IF parents[node.id] # 0 THEN parents[node.id]
                  ELSE None
            /\ (parents[node.id] = 0 => out[k] = node)

\* C20: flattenCategoryTree and flattenServicesTree return the nodes of the
\* tree in pre-order, one entry per node; a nested node without parentId
\* gets its tree parent's id, a node with a parentId keeps it, and top-level
\* nodes are returned as they are.
C20_FlattenPreOrder ==
    /\ ("categories" \in flDone =>
            /\ IsPreOrder(flCategories, flParents)
            /\ EntriesNormalized(flCategories, flParents, flGiven))
    /\ ("services" \in flDone =>
            /\ IsPreOrder(flServices, flParents)
            /\ EntriesNormalized(flServices, flParents, flGiven))

\* C20 witness: both functions flattened a tree of MaxNodes nodes with a
\* nested node that lacks parentId, which got its tree parent's id, and a
\* nested node whose parentId names another node than its tree parent,
\* which kept it.
C20_Witness ==
    /\ flDone = {"categories", "services"}
    /\ Len(flCategories) = MaxNodes
    /\ \E i, j \in NodeIds(flParents) :
          /\ flParents[i] # 0 /\ flGiven[i] = None
          /\ flCategories[PositionIn(flCategories, i)].parentId = flParents[i]
          /\ flParents[j] # 0 /\ flGiven[j] # None /\ flGiven[j] # flParents[j]
          /\ flCategories[PositionIn(flCategories, j)].parentId = flGiven[j]
    /\ flServices = flCategories

----------------------------------------------------------------------------
(* Claims about the group filters (SpecGroups) *)

IsServiceGroup(g) ==
    \E k \in 1..Len(groupServices) :
        groupServices[k].id = g /\ groupServices[k].parentId = None

IsPageGroup(g) ==
    \E k \in 1..Len(groupPages) :
        groupPages[k].id = g /\ getPageParentId(groupPages[k]) = None

\* C21: once the selection-reset effects have run, selectedServiceGroupId is
\* "all" or the id of a loaded service without parentId, and
\* selectedPageGroupId is "all" or the id of a loaded page without parent;
\* the effects set a selection that matches no group back to "all" and
\* leave every other selection as it is.
C21_SelectionsNameGroups ==
    /\ [](~groupEffectsPending =>
            /\ (selectedServiceGroupId = AllGroups \/ IsServiceGroup(selectedServiceGroupId))
            /\ (selectedPageGroupId = AllGroups \/ IsPageGroup(selectedPageGroupId)))
    /\ [][(groupEffectsPending /\ groupServices' = groupServices
              /\ groupPages' = groupPages
              /\ (groupEffectsPending' = FALSE \/ groupResets' # groupResets)) =>
            /\ selectedServiceGroupId' =
                  IF selectedServiceGroupId = AllGroups
                        \/ IsServiceGroup(selectedServiceGroupId)
                  THEN selectedServiceGroupId ELSE AllGroups
            /\ selectedPageGroupId' =
                  IF selectedPageGroupId = AllGroups \/ IsPageGroup(selectedPageGroupId)
                  THEN selectedPageGroupId ELSE AllGroups]_vars

\* C21 witness: both selections were reset after the data changed, the user
\* picked groups of the new data, and the effects have run.
C21_Witness ==
    /\ ~groupEffectsPending
    /\ groupResets = {"service", "page"}
    /\ selectedServiceGroupId # AllGroups
    /\ selectedPageGroupId # AllGroups
    /\ Len(groupServices) > 1

\* C23: with a top-level service g selected as group, filteredServices
\* holds g and every descendant of g, at any depth.
C23_GroupShowsAllDescendants ==
    (~groupEffectsPending /\ IsServiceGroup(selectedServiceGroupId)) =>
        \A d \in SubtreeOf(groupParents, selectedServiceGroupId) :
            \E k \in 1..Len(filteredServices) : filteredServices[k].id = d

----------------------------------------------------------------------------
(* Claims about the category filter of the earlier revisions (SpecCounts) *)

\* The count the option of category c shows (part_000 lines 711-715).
ShownCount(c) ==
    LET k == CHOOSE k \in 1..Len(categories) : categories[k].category = c
    IN  categories[k].count

\* C24: the count shown next to the selected category equals the number of
\* products listed for it, for every list of products.
C24_CountIsNumberListed ==
    selectedCategoryId # AllCategories =>
        ShownCount(selectedCategoryId) = Len(filteredProducts)

----------------------------------------------------------------------------
(* Claims about fetchProductBySlug (SpecSlug) *)

\* The list the response carries, as fetchProductsPage reads it.
SlugResponseItems == SlugRequest(slugHttp).val.items

\* The backend applied the slug filter it was sent.
SlugFilterApplied ==
    /\ slugAsked # ""
    /\ \A k \in 1..Len(SlugResponseItems) :
           ~Falsy(SlugResponseItems[k]) => SlugResponseItems[k].v.slug = slugAsked

SlugSettled == slugResult.st # "pending"

\* C25, as the code has it: fetchProductBySlug(s) never rejects; it resolves
\* to null when the request fails or the response has no first item, and to
\* the first item of the response otherwise, whatever its slug is; the
\* product's slug is s when the backend applied the slug filter.
C25_ResolvesToFirstItemOrNull ==
    SlugSettled =>
        /\ slugResult.st = "resolved"
        /\ (apiGetThrows(slugHttp) \/ Len(SlugResponseItems) = 0)
               => slugResult.val = Null(NoProduct)
        /\ slugResult.val # Null(NoProduct)
               => slugResult.val = SlugResponseItems[1]
        /\ (SlugFilterApplied /\ slugResult.val # Null(NoProduct))
               => slugResult.val.v.slug = slugAsked

C25_Witness ==
    /\ SlugSettled
    /\ Len(SlugResponseItems) = 2
    /\ slugResult.val = Val(SlugProduct(1, "a"))
    /\ slugAsked = "a"
    /\ SlugFilterApplied

\* C25 as stated: for any backend response the result is null or a product
\* whose slug is s.
C25_ResolvesToProductOfSlug ==
    (SlugSettled /\ slugResult.val # Null(NoProduct))
        => slugResult.val.v.slug = slugAsked

----------------------------------------------------------------------------
(* Claims about the contact form (SpecContact) *)

\* The step is the settling of a submission with the outcome given.
ContactSettledAs(outcome) ==
    /\ Len(contactOutcomes') = Len(contactOutcomes) + 1
    /\ contactOutcomes'[Len(contactOutcomes')] = outcome

\* The step is a call of handleContactSubmit with no form loaded.
ContactCallWithoutForm ==
    contactCalls' # contactCalls /\ contactForm = NoForm

\* data holds, for every field of the form, [] if the field is a checkbox
\* and "" otherwise, and nothing else.
IsDefaultDataOf(form, data) ==
    /\ DOMAIN data = {form.fields[k].name : k \in 1..Len(form.fields)}
    /\ \A k \in 1..Len(form.fields) :
           data[form.fields[k].name] =
               IF form.fields[k].type = "checkbox" THEN ArrayValue(<<>>)
               ELSE StringValue("")

\* C26: contactFormSubmitting is true exactly while a submission is under
\* way; a submission that succeeds leaves contactFormSuccess set,
\* contactFormError null and contactFormData at the fields' defaults; one
\* that fails leaves contactFormError set, contactFormSuccess null and
\* contactFormData as it was; a call with no form loaded changes nothing.
C26_SubmitHasTwoOutcomes ==
    /\ [](contactFormSubmitting <=> contactInFlight # <<>>)
    /\ [][ContactSettledAs("success") =>
             /\ ~contactFormSubmitting'
             /\ contactFormSuccess' # Null("")
             /\ contactFormError' = Null("")
             /\ IsDefaultDataOf(contactForm, contactFormData')]_vars
    /\ [][ContactSettledAs("failure") =>
             /\ ~contactFormSubmitting'
             /\ contactFormError' # Null("")
             /\ contactFormSuccess' = Null("")
             /\ contactFormData' = contactFormData]_vars
    /\ [][ContactCallWithoutForm =>
             UNCHANGED <<contactForm, contactFormNote, contactFormData,
                         contactFormLoading, contactFormSubmitting,
                         contactFormError, contactFormSuccess,
                         contactInFlight>>]_vars

C26_Witness ==
    /\ contactOutcomes = <<"failure", "success">>
    /\ Len(contactForm.fields) = 2
    /\ contactFormData = DefaultData(contactForm)
    /\ ~contactFormSubmitting

\* C27: contactFormError and contactFormSuccess are never both non-null.
C27_NeverErrorAndSuccess ==
    ~(contactFormError # Null("") /\ contactFormSuccess # Null(""))

C27_Witness ==
    /\ contactOutcomes = <<"success", "failure">>
    /\ contactFormError # Null("")
    /\ contactFormSuccess = Null("")

----------------------------------------------------------------------------
(* Claims about the header menus (SpecMenus) *)

\* C28: productsMenuOpen and servicesMenuOpen are never both true, and
\* after an outside click or an Escape key press both are false.
C28_OneDropdownAtMost ==
    /\ ~(productsMenuOpen /\ servicesMenuOpen)
    /\ menuLast.event \in {"outsideClick", "Escape"}
           => ~productsMenuOpen /\ ~servicesMenuOpen

C28_Witness ==
    /\ menuLast.event = "productsButton"
    /\ menuLast.turnedOff = {"services"}
    /\ productsMenuOpen

\* C29: searchOpen and mobileMenuOpen are never both true.
C29_SearchOrMobileMenu == ~(searchOpen /\ mobileMenuOpen)

C29_Witness ==
    /\ menuLast.event = "searchOpen"
    /\ "mobile" \in menuLast.turnedOff
    /\ searchOpen

----------------------------------------------------------------------------
(* Claims about the results the header search shows (SpecSearch) *)

\* App.tsx lines 993-1012: nothing is listed for an empty text or while
\* searchLoading; otherwise every entry of searchResults gets a link.
ShownSearchResults ==
    IF search = <<>> \/ searchLoading THEN <<>> ELSE searchResults

\* C22: the header search shows at most 8 results, for any search text and
\* any backend response.
C22_AtMostEightShown == Len(ShownSearchResults) <= 8
====
